---------------------------- MODULE Spec2Model ----------------------------
(***************************************************************************)
(* Inveni: the file-change monitor (core/file_monitor.py), the backup      *)
(* store (core/backup_manager.py), the tracked-file index                  *)
(* (core/version_manager.py) and the two commit entry points and the       *)
(* restore entry point of the UI that drive them.                          *)
(*                                                                         *)
(* File contents are small integers; 0 is "the file does not exist".       *)
(* Paths are already normalised (os.path.normpath is the identity on       *)
(* them).  Time is a logical clock "now" that advances with every write    *)
(* to the filesystem, so two writes never carry the same mtime.            *)
(*                                                                         *)
(* Four specifications share the variables and the actions:                *)
(*   StoreSpec    the commit page drives the store, the user edits         *)
(*   CommitSpec   the commit page and the quick-commit dialog together     *)
(*   RestoreSpec  commits and restores of both kinds of file               *)
(*   MonSpec      the background thread of the monitor, its UI requests    *)
(*                and the restore page                                     *)
(***************************************************************************)
EXTENDS Integers, Sequences, FiniteSets, TLC

\* ------------------------------------------------------------------ bounds
MaxClock == 6
NumContents == 3
MaxBackupsBound == 2
MaxQueue == 2
CommitClock == 5
RestoreClock == 4
MonClock == 4
LifeClock == 4
IndexClock == 5
RestoreApiClock == 3
PassClock == 5
PromptClock == 3
PendingClock == 4
ApiBackupClock == 2
LegacyClock == 3
OverlapClock == 5
MaxVersions == 3
CountClock == 4

\* ------------------------------------------------------------ the universe
Paths == {"d/notes.txt", "d/report.docx"}
Contents == 1..NumContents

\* os.path.splitext(path)[1].lower()
Ext(p) == IF p = "d/report.docx" THEN ".docx" ELSE ".txt"
OfficeExts == {".doc", ".docx", ".xls", ".xlsx", ".ppt", ".pptx"}

\* hashlib.sha256(f.read()).hexdigest(): injective on the contents modelled
calculate_file_hash(c) == 100 + c
Hashes == {calculate_file_hash(c) : c \in Contents}
NoHash == 0

\* os.path.getsize: contents 1,2 have size 1, contents 3,4 size 2, ...
getsize(c) == IF c = 0 THEN 0 ELSE (c + 1) \div 2

\* gzip.open(..., 'wb') + copyfileobj, and gzip.open(..., 'rb').read()
gzip_compress(c) == <<"gz", c>>
gzip_decompress(b) == b[2]

NoBlob == [data |-> <<"gz", 0>>, mtime |-> 0]

VARIABLES
    \* --- the filesystem
    fileContent,      \* [Paths -> 0..NumContents], 0 = missing
    fileMtime,        \* [Paths -> Nat]
    locked,           \* [Paths -> BOOLEAN]: held open by another application
    now,              \* logical clock
    \* --- BackupManager
    blobs,            \* [Paths -> [Hashes -> [data, mtime]]]: <root>/versions/<dirhash>_<base>/<h>.gz
    legacy,           \* [Paths -> SUBSET Hashes]: <root>/versions/<base>/<h>.gz
    known_missing,    \* _known_missing_backups: set of <<path, hash>>
    temp_backups,     \* <root>/temp_backups: set of [name, data, old]
    \* --- VersionManager: tracked_files.json
    index,            \* [Paths -> [present, versions: Seq([hash, ts])]]
    \* --- the two commit entry points
    commit,           \* [{"page","dialog"} -> [pc, path, hash, snap, ts]]: a commit under way,
                      \* snap = the index as the caller loaded it
    dialogs,          \* [Paths -> Nat]: creation time of the open QuickCommitDialog, 0 = none
    restore,          \* the restore page's worker thread: [pc, path, hash]
    \* --- FileMonitor
    watched_files,    \* [Paths -> [watched, hash, mtime, size, is_open]]
    restoring_files,  \* set of paths
    tracked_files,    \* the monitor's in-memory copy of the index: set of paths
    files_with_changes,
    pending_changes_count,
    background_queue, \* Seq of [task, path]
    is_monitoring,
    running,
    lock,             \* "free" or the thread that holds FileMonitor.lock
    mon,              \* the background thread: [pc, todo], todo = paths the pass has yet to visit
    cooldown,         \* paths whose last commit prompt is less than dialog_cooldown old
    \* --- observation
    cycle,            \* [Paths -> [active, base, cb, hashed]]: the edit cycle under way, the
                      \* hash before it, its callbacks, whether a pass has hashed the file
    post,             \* [Paths -> "na" | "restored" | "reset" | "quiet" | "notified"]:
                      \* what followed a restore that changed a watched file
    run,              \* [Paths -> [n, seq]]: the hashes committed so far, in order, while every
                      \* commit of the path used the same max_backups n, wrote a new hash
                      \* and no deletion failed (n = 0: none yet, n = -1: no longer so)
    evicted,          \* [Paths -> SUBSET Hashes]: blobs deleted by retention and not rewritten since
    last_backup,      \* the last create_backup call: [path, hash, maxb, ok, del_failed,
                      \* was_cached: the negative cache held (path, hash) when it began]
    committed,        \* [Paths -> SUBSET Hashes]: hashes h whose blob was written by a
                      \* create_backup(path, h) while the file's hash was h, and that
                      \* retention has not deleted since
    \* --- tracked_files.json on disk, and further observation
    index_file,       \* "ok": the file holds the document index; "missing"; "torn": a
                      \* prefix of a document, text that is not JSON; "undecodable":
                      \* bytes that are not UTF-8
    last_load,        \* the last observed load_tracked_files call: [file: the state of the
                      \* file it met, value, raised, saving: a save was under way, old,
                      \* new: the documents before and after that save]
    last_restore,     \* the last direct restore_file_version call (restore_call):
                      \* [path, hash, outcome, had_blob, found: what the existence
                      \* check returned, content: what get_version_content returns,
                      \* locked: as the call met them, before, after: the target's
                      \* content, staged: a staging copy was written, sibling: the
                      \* temp_<name> file was left behind]
    pass_log,         \* [Paths -> what the pass under way did when it visited the path]
    owed,             \* the tasks queued before stop() that have not been executed
    pick              \* the "versions" dict of one path and the version each of the two
                      \* comparisons selects from it as the most recent: [versions,
                      \* parsed: has_file_changed, raw: _get_last_commit]

fsVars == <<fileContent, fileMtime, locked, now>>
storeVars == <<blobs, legacy, known_missing, temp_backups, index>>
monVars == <<watched_files, restoring_files, tracked_files, files_with_changes,
             pending_changes_count, background_queue, is_monitoring, running,
             lock, mon, cooldown>>
obsVars == <<cycle, post, run, evicted, last_backup, committed>>
uiVars == <<commit, dialogs, restore>>
auxVars == <<index_file, last_load, last_restore, pass_log, owed, pick>>
vars == <<fsVars, storeVars, uiVars, monVars, obsVars, auxVars>>


\* ==================================================== VersionManager (index)
EmptyIndex == [p \in Paths |-> [present |-> FALSE, versions |-> <<>>]]

VersionHashes(vs) == {vs[i].hash : i \in 1..Len(vs)}

\* tracked_files[path]["versions"][h] = {...}: a dict keeps a key's first position
PutVersion(vs, h, ts) ==
    IF h \in VersionHashes(vs)
    THEN [i \in 1..Len(vs) |-> IF vs[i].hash = h THEN [hash |-> h, ts |-> ts] ELSE vs[i]]
    ELSE Append(vs, [hash |-> h, ts |-> ts])

\* del tracked_files[path]["versions"][h] for every h in hs
DelVersions(vs, hs) == SelectSeq(vs, LAMBDA r : r.hash \notin hs)

\* VersionManager.load_tracked_files: the persisted document; {} when the file
\* is missing (FileNotFoundError) or its text is not JSON (JSONDecodeError)
load_tracked_files == IF index_file = "ok" THEN index ELSE EmptyIndex

\* VersionManager.load_tracked_files raises: only FileNotFoundError and
\* json.JSONDecodeError are caught, and the bytes are decoded as UTF-8 first
load_raises == index_file = "undecodable"

\* sorted(versions.items(), key=parsed timestamp, reverse=True)[0][0]:
\* the sort is stable, so the first record carrying the greatest timestamp
latest_version(vs) ==
    LET i == CHOOSE k \in 1..Len(vs) :
                 /\ \A j \in 1..Len(vs) : vs[j].ts <= vs[k].ts
                 /\ \A j \in 1..(k - 1) : vs[j].ts < vs[k].ts
    IN vs[i].hash

\* ------------------------------------------------ timestamps as text
\* a str is a sequence of one-character strings; a date-time is the tuple
\* <<year, month, day, hour, minute, second>>
Digits == <<"0", "1", "2", "3", "4", "5", "6", "7", "8", "9">>

IsDigit(ch) == \E i \in 1..10 : Digits[i] = ch

\* the code point of a character of a timestamp
ord(ch) ==
    CASE ch = " " -> 32
      [] ch = "-" -> 45
      [] ch = ":" -> 58
      [] OTHER -> 47 + (CHOOSE i \in 1..10 : Digits[i] = ch)

\* str(n) of a natural number
RECURSIVE str(_)
str(n) == IF n < 10 THEN <<Digits[n + 1]>>
          ELSE Append(str(n \div 10), Digits[(n % 10) + 1])

RECURSIVE zfill(_, _)
zfill(s, w) == IF Len(s) >= w THEN s ELSE zfill(<<"0">> \o s, w)

\* a field written without leading zeros
unpadded(n, w) == str(n)

\* a field of strftime: %Y is four digits wide, %m %d %H %M %S are two
padded(n, w) == zfill(str(n), w)

\* datetime.strftime("%Y-%m-%d %H:%M:%S")
strftime(dt) ==
    padded(dt[1], 4) \o <<"-">> \o padded(dt[2], 2) \o <<"-">> \o padded(dt[3], 2)
        \o <<" ">> \o padded(dt[4], 2) \o <<":">> \o padded(dt[5], 2)
        \o <<":">> \o padded(dt[6], 2)

\* datetime.strptime(s, "%Y-%m-%d %H:%M:%S") of a text that matches the format:
\* the digits of each field are read as a number, the separators end a field
RECURSIVE strptime_from(_, _, _)
strptime_from(s, cur, out) ==
    IF s = <<>> THEN Append(out, cur)
    ELSE IF IsDigit(Head(s))
         THEN strptime_from(Tail(s), cur * 10 + (ord(Head(s)) - ord("0")), out)
         ELSE strptime_from(Tail(s), 0, Append(out, cur))

strptime(s) == strptime_from(s, 0, <<>>)

\* a < b for two sequences of numbers, item by item; a proper prefix is smaller
RECURSIVE lex_less(_, _)
lex_less(a, b) ==
    IF a = <<>> THEN b # <<>>
    ELSE IF b = <<>> THEN FALSE
    ELSE IF Head(a) # Head(b) THEN Head(a) < Head(b)
    ELSE lex_less(Tail(a), Tail(b))

\* a > b for two datetime values
datetime_gt(a, b) == lex_less(b, a)

\* a > b for two str values: by code point
str_gt(a, b) ==
    lex_less([i \in 1..Len(b) |-> ord(b[i])], [i \in 1..Len(a) |-> ord(a[i])])

\* has_file_changed: sorted(versions.items(), key=strptime(timestamp),
\* reverse=True)[0][0]; the sort is stable, so of the items with the greatest key
\* the first in the dict's order comes first
latest_version_parsed(vs) ==
    LET key(i) == strptime(vs[i].timestamp)
        k == CHOOSE i \in 1..Len(vs) :
                 /\ \A j \in 1..Len(vs) : ~datetime_gt(key(j), key(i))
                 /\ \A j \in 1..(i - 1) : datetime_gt(key(i), key(j))
    IN vs[k].hash

\* _get_last_commit: the loop over versions.items() that keeps the item whose
\* timestamp is greater, as text, than the greatest seen so far
RECURSIVE _get_last_commit_loop(_, _, _)
_get_last_commit_loop(vs, latest_timestamp, latest_hash) ==
    IF vs = <<>> THEN latest_hash
    ELSE IF latest_timestamp = <<>> \/ str_gt(Head(vs).timestamp, latest_timestamp)
         THEN _get_last_commit_loop(Tail(vs), Head(vs).timestamp, Head(vs).hash)
         ELSE _get_last_commit_loop(Tail(vs), latest_timestamp, latest_hash)

_get_last_commit(vs) == _get_last_commit_loop(vs, <<>>, NoHash)

\* VersionManager.has_file_changed -> (has_changed, current_hash, last_hash)
has_file_changed(p, tracked) ==
    LET cur == calculate_file_hash(fileContent[p]) IN
    IF ~tracked[p].present \/ tracked[p].versions = <<>>
    THEN [changed |-> TRUE, cur |-> cur, last |-> NoHash]
    ELSE LET last == latest_version(tracked[p].versions)
         IN [changed |-> cur # last, cur |-> cur, last |-> last]

\* ============================================================ BackupManager
BlobPresent(bs, h) == bs[h].mtime # 0
BlobCount(p) == Cardinality({h \in Hashes : BlobPresent(blobs[p], h)})

\* _get_cache_key: f"{normalized_path}|{file_hash}"
_get_cache_key(p, h) == <<p, h>>

\* a create_backup that leaves the negative cache as it was
keep_missing_cache(cache, p) == cache

\* _clear_missing_cache_for_file: drop every key with the prefix "<path>|"
_clear_missing_cache_for_file(cache, p) == {k \in cache : k[1] # p}

\* the listing sorted by mtime, newest first
RECURSIVE SortNewestFirst(_, _)
SortNewestFirst(bs, S) ==
    IF S = {} THEN <<>>
    ELSE LET h == CHOOSE x \in S : \A y \in S : bs[y].mtime <= bs[x].mtime
         IN <<h>> \o SortNewestFirst(bs, S \ {h})

\* a listing sorted the other way round: oldest first
listing_oldest_first(bs) ==
    LET newest == SortNewestFirst(bs, {h \in Hashes : BlobPresent(bs, h)})
    IN [i \in 1..Len(newest) |-> newest[Len(newest) + 1 - i]]

\* _get_all_backup_files: the hashes of the *.gz files of the path's directory
_get_all_backup_files(bs) == SortNewestFirst(bs, {h \in Hashes : BlobPresent(bs, h)})

\* a retention pass that keeps one blob more than max_backups
keep_one_more(all, max_backups) == {all[i] : i \in (max_backups + 2)..Len(all)}

\* backups_to_delete = all_backups[max_backups:]
backups_to_delete(all, max_backups) == {all[i] : i \in (max_backups + 1)..Len(all)}

\* _clean_old_backups(path, max_backups, tracked_files); fails = the hashes
\* whose os.remove raises.  Returns the directory, the cache and the index
\* it leaves behind.
_clean_old_backups(p, bs, cache, tracked, max_backups, fails) ==
    LET all == _get_all_backup_files(bs)
        over == Len(all) > max_backups
        gone == IF over THEN backups_to_delete(all, max_backups) \ fails ELSE {}
        failed == IF over THEN backups_to_delete(all, max_backups) \cap fails ELSE {}
    IN [blobs |-> [h \in Hashes |-> IF h \in gone THEN NoBlob ELSE bs[h]],
        cache |-> cache \cup {_get_cache_key(p, h) : h \in gone},
        index |-> IF over /\ tracked[p].present
                  THEN [tracked EXCEPT ![p].versions = DelVersions(@, gone)]
                  ELSE tracked,
        saved |-> over /\ tracked[p].present,
        gone |-> gone,
        del_failed |-> failed # {}]

\* _cleanup_old_bak_files: remove the staging copies older than 24 hours
_cleanup_old_bak_files(tb) == {b \in tb : ~b.old}

\* an existence check that trusts the caller
blob_assumed(p, h) == TRUE

\* check_backup_exists: the value it returns
backup_exists(p, h) ==
    /\ _get_cache_key(p, h) \notin known_missing
    /\ \/ BlobPresent(blobs[p], h)
       \/ h \in legacy[p]

\* check_backup_exists: the cache it leaves behind
cache_after_check(p, h) ==
    IF _get_cache_key(p, h) \notin known_missing /\ ~backup_exists(p, h)
    THEN known_missing \cup {_get_cache_key(p, h)}
    ELSE known_missing

\* the blob written by create_backup: gzip of the file's current bytes
new_blob(p, t) == [data |-> gzip_compress(fileContent[p]), mtime |-> t]

\* open(normalized_path, 'rb') succeeds
can_read(p) == fileContent[p] # 0


NoRun == [n |-> 0, seq |-> <<>>]
VoidRun == [n |-> -1, seq |-> <<>>]

run_on_backup(r, h, max_backups, del_failed) ==
    IF r.n = 0 /\ ~del_failed THEN [n |-> max_backups, seq |-> <<h>>]
    ELSE IF r.n = max_backups /\ ~del_failed /\ h \notin {r.seq[i] : i \in 1..Len(r.seq)}
         THEN [n |-> r.n, seq |-> Append(r.seq, h)]
         ELSE VoidRun

BackupCall(p, h, max_backups, ok, del_failed, was_cached) ==
    [path |-> p, hash |-> h, maxb |-> max_backups, ok |-> ok, del_failed |-> del_failed,
     was_cached |-> was_cached]

\* the blobs the retention pass of create_backup(path, h, max_backups) will try
\* to remove: each os.remove may raise on its own
removal_candidates(p, h, max_backups) ==
    IF ~can_read(p) THEN {}
    ELSE backups_to_delete(
             _get_all_backup_files([blobs[p] EXCEPT ![h] = new_blob(p, now + 1)]),
             max_backups)

\* BackupManager.create_backup(path, file_hash, {"max_backups": max_backups}).
\* The caller's hash names the blob; the bytes are those the file holds now.
create_backup(p, h, max_backups, fails) ==
    LET cleared == _clear_missing_cache_for_file(known_missing, p) IN
    IF ~can_read(p)
    THEN \* open(normalized_path, 'rb') raises: logged and re-raised
         /\ known_missing' = cleared
         /\ last_backup' = BackupCall(p, h, max_backups, FALSE, FALSE,
                                      _get_cache_key(p, h) \in known_missing)
         /\ UNCHANGED <<blobs, index, temp_backups, now, run, evicted, committed>>
    ELSE LET written == [blobs[p] EXCEPT ![h] = new_blob(p, now + 1)]
             r == _clean_old_backups(p, written, cleared, load_tracked_files,
                                     max_backups, fails)
         IN /\ now' = now + 1
            /\ blobs' = [blobs EXCEPT ![p] = r.blobs]
            /\ known_missing' = r.cache
            /\ index' = IF r.saved THEN r.index ELSE index
            /\ temp_backups' = _cleanup_old_bak_files(temp_backups)
            /\ run' = [run EXCEPT ![p] = run_on_backup(@, h, max_backups, r.del_failed)]
            /\ evicted' = [evicted EXCEPT ![p] = (@ \ {h}) \cup r.gone]
            /\ last_backup' = BackupCall(p, h, max_backups, TRUE, r.del_failed,
                                         _get_cache_key(p, h) \in known_missing)
            /\ committed' = [committed EXCEPT ![p] =
                                (@ \ r.gone) \cup
                                IF h = calculate_file_hash(fileContent[p]) THEN {h} ELSE {}]

\* BackupManager.check_backup_exists(path, file_hash)
check_backup_exists(p, h) ==
    /\ known_missing' = cache_after_check(p, h)
    /\ UNCHANGED <<auxVars, fsVars, blobs, legacy, temp_backups, index, uiVars,
                   monVars, obsVars>>

\* gzip.open(backup_path, 'rb') succeeds: only the primary layout is read
can_open_blob(p, h) == BlobPresent(blobs[p], h)

\* BackupManager.get_version_content(path, file_hash): the bytes it returns,
\* 0 when it raises
version_content(p, h) ==
    IF backup_exists(p, h) /\ can_open_blob(p, h)
    THEN gzip_decompress(blobs[p][h].data)
    ELSE 0

\* BackupManager.get_version_content: what the call leaves behind
get_version_content(p, h) ==
    /\ known_missing' = cache_after_check(p, h)
    /\ UNCHANGED <<auxVars, fsVars, blobs, legacy, temp_backups, index, uiVars,
                   monVars, obsVars>>


\* a restore that never finds the target locked
always_writable(p) == TRUE

\* the target can be opened for writing: open(path, 'wb'), _can_write_to_file
can_write(p) == ~locked[p]

\* shutil.copy2(normalized_path, temp_backup_path) when the target exists
staging_copy(p) ==
    IF fileContent[p] # 0
    THEN temp_backups \cup {[name |-> p, data |-> fileContent[p], old |-> FALSE]}
    ELSE temp_backups

\* how restore_file_version ends, after the blob was found:
\*   regular files: gzip.open(blob), open(target, 'wb'), copyfileobj
\*   office files:  _restore_office_document (temp sibling, then swap)
restore_outcome(p, h, platform, unlink_fails) ==
    IF Ext(p) \in OfficeExts
    THEN IF fileContent[p] # 0 /\ ~can_write(p) THEN "permission"
         ELSE IF ~can_open_blob(p, h) THEN "not_found"
         ELSE IF fileContent[p] # 0 /\ platform = "Windows" /\ unlink_fails
              THEN "failed"      \* os.rename onto an existing target raises
         ELSE "ok"
    ELSE IF ~can_open_blob(p, h) THEN "not_found"
         ELSE IF ~can_write(p) THEN "permission"
         ELSE "ok"

\* the bytes a successful restore leaves in the target
restored_bytes(p, h) == gzip_decompress(blobs[p][h].data)

\* BackupManager.restore_file_version(path, file_hash)
restore_file_version(p, h, platform, unlink_fails) ==
    LET found == backup_exists(p, h)
        out == IF found THEN restore_outcome(p, h, platform, unlink_fails)
               ELSE "not_found"
    IN /\ known_missing' = cache_after_check(p, h)
       /\ temp_backups' = IF found THEN staging_copy(p) ELSE temp_backups
       /\ IF out = "ok"
          THEN /\ fileContent' = [fileContent EXCEPT ![p] = restored_bytes(p, h)]
               /\ fileMtime' = [fileMtime EXCEPT ![p] = now + 1]
               /\ now' = now + 1
          ELSE UNCHANGED <<fileContent, fileMtime, now>>

\* the outcome of restore_file_version(path, file_hash): "ok", or the exception it
\* raises: "not_found" (FileNotFoundError, from the existence check or from
\* gzip.open of the primary path), "permission" (PermissionError), "failed"
\* (anything else)
restore_result(p, h, platform, unlink_fails) ==
    IF backup_exists(p, h) THEN restore_outcome(p, h, platform, unlink_fails)
    ELSE "not_found"

\* _restore_office_document leaves temp_<name> behind: the temp file was written,
\* the swap failed and the os.remove of the except clause may fail in turn
sibling_outcomes(p, h, platform, unlink_fails) ==
    IF /\ Ext(p) \in OfficeExts
       /\ restore_result(p, h, platform, unlink_fails) = "failed"
       /\ can_open_blob(p, h)
    THEN BOOLEAN ELSE {FALSE}

\* what a restore_file_version call is seen to do; content is what
\* get_version_content returns for the same path and hash at that moment
RestoreCall(p, h, platform, unlink_fails, sibling) ==
    LET out == restore_result(p, h, platform, unlink_fails) IN
    [path |-> p, hash |-> h, outcome |-> out,
     had_blob |-> BlobPresent(blobs[p], h) \/ h \in legacy[p],
     found |-> backup_exists(p, h),
     content |-> version_content(p, h),
     locked |-> locked[p],
     before |-> fileContent[p],
     after |-> IF out = "ok" THEN restored_bytes(p, h) ELSE fileContent[p],
     staged |-> staging_copy(p) # temp_backups /\ backup_exists(p, h),
     sibling |-> sibling]

\* ============================================== FileMonitor: data and helpers
NotWatched == [watched |-> FALSE, hash |-> NoHash, mtime |-> 0, size |-> 0,
               is_open |-> FALSE]

getmtime(p) == fileMtime[p]

\* an entry that describes no file
blank_entry(p, is_open) ==
    [watched |-> TRUE, hash |-> NoHash, mtime |-> 0, size |-> 0, is_open |-> is_open]

\* the entry set_file stores: hash, mtime and size of the file as it is now
fresh_entry(p, is_open) ==
    [watched |-> TRUE, hash |-> calculate_file_hash(fileContent[p]),
     mtime |-> getmtime(p), size |-> getsize(fileContent[p]), is_open |-> is_open]

Task(t, p) == [task |-> t, path |-> p]

\* add_background_task
add_background_task(q, t) == Append(q, t)

\* the paths of a loaded index: "normalized_path in self.tracked_files"
tracked_paths(idx) == {p \in Paths : idx[p].present}

\* a decrement for every call, pending or not
drop_always(fwc, cnt, p) ==
    [files |-> fwc \ {p}, count |-> IF cnt - 1 > 0 THEN cnt - 1 ELSE 0]

\* files_with_changes.remove + pending_changes_count = max(0, count - 1)
drop_pending(fwc, cnt, p) ==
    IF p \in fwc THEN [files |-> fwc \ {p}, count |-> IF cnt - 1 > 0 THEN cnt - 1 ELSE 0]
    ELSE [files |-> fwc, count |-> cnt]


\* ------------------------------------------------------------- observation
NoCycle == [active |-> FALSE, base |-> NoHash, cb |-> 0, hc |-> 0, hashed |-> FALSE]

\* the watch entry describes the file as it is now
InSync(p) ==
    /\ watched_files[p].watched
    /\ watched_files[p].mtime = fileMtime[p]
    /\ watched_files[p].size = getsize(fileContent[p])

\* a write by the user: an edit cycle starts when the entry described the file;
\* a write after a pass has hashed the content is not "the file stays unmodified"
cycle_on_write(p) ==
    IF cycle[p].active
    THEN IF cycle[p].hashed THEN [cycle EXCEPT ![p] = NoCycle] ELSE cycle
    ELSE IF InSync(p) /\ watched_files[p].hash = calculate_file_hash(fileContent[p])
         THEN [cycle EXCEPT ![p] = [active |-> TRUE, base |-> watched_files[p].hash,
                                    cb |-> 0, hc |-> 0, hashed |-> FALSE]]
         ELSE cycle

\* anything but the detection pass touching the path or its entry ends the cycle
cycle_off(p) == [cycle EXCEPT ![p] = NoCycle]

\* a pass hashed the content; callback(path, True) was invoked or not
cycle_on_hash(p, called) ==
    IF cycle[p].active
    THEN [cycle EXCEPT ![p].hashed = TRUE, ![p].cb = IF called THEN @ + 1 ELSE @]
    ELSE cycle

\* _handle_file_closed was called or not, cy being the cycles after the hash
cycle_on_close(cy, p, handled) ==
    IF cy[p].active /\ handled THEN [cy EXCEPT ![p].hc = @ + 1] ELSE cy

\* a detection pass has looked at the path after the reset that followed a restore
post_on_pass(p, notified) ==
    IF post[p] \in {"reset", "quiet"}
    THEN [post EXCEPT ![p] = IF notified THEN "notified" ELSE "quiet"]
    ELSE post

\* =============================================================== environment
\* the user's editor saves the file (or creates it)
UserWrite(p, c) ==
    /\ now < MaxClock
    /\ fileContent' = [fileContent EXCEPT ![p] = c]
    /\ fileMtime' = [fileMtime EXCEPT ![p] = now + 1]
    /\ now' = now + 1
    /\ cycle' = cycle_on_write(p)
    /\ post' = [post EXCEPT ![p] = "na"]
    /\ UNCHANGED <<auxVars, locked, storeVars, uiVars, monVars, run, evicted, last_backup, committed>>

\* the user deletes the file
UserDelete(p) ==
    /\ fileContent[p] # 0
    /\ fileContent' = [fileContent EXCEPT ![p] = 0]
    /\ locked' = [locked EXCEPT ![p] = FALSE]
    /\ cycle' = cycle_off(p)
    /\ post' = [post EXCEPT ![p] = "na"]
    /\ UNCHANGED <<auxVars, fileMtime, now, storeVars, uiVars, monVars, run,
                   evicted, last_backup, committed>>

\* another application takes or gives up its exclusive hold of the file
ToggleLock(p) ==
    /\ fileContent[p] # 0
    /\ locked' = [locked EXCEPT ![p] = ~@]
    /\ UNCHANGED <<auxVars, fileContent, fileMtime, now, storeVars, uiVars, monVars, obsVars>>

\* a day passes: every staging copy is now older than 24 hours
StagingAges ==
    /\ \E b \in temp_backups : ~b.old
    /\ temp_backups' = {[b EXCEPT !.old = TRUE] : b \in temp_backups}
    /\ UNCHANGED <<auxVars, fsVars, blobs, legacy, known_missing, index, uiVars, monVars,
                   obsVars>>


\* ================================================= FileMonitor: public calls
\* FileMonitor.refresh_tracked_files (takes no lock)
refresh_tracked_files(idx) == tracked_paths(idx)

\* FileMonitor.update_after_commit(path, new_hash), idx = the index it reloads
update_after_commit(p, new_hash, idx) ==
    LET d == drop_pending(files_with_changes, pending_changes_count, p) IN
    /\ lock = "free"
    /\ tracked_files' = refresh_tracked_files(idx)
    /\ IF watched_files[p].watched
       THEN /\ watched_files' = [watched_files EXCEPT
                                    ![p].hash = new_hash,
                                    ![p].mtime = IF fileContent[p] # 0 THEN getmtime(p) ELSE 0,
                                    ![p].size = getsize(fileContent[p])]
            /\ UNCHANGED background_queue
       ELSE /\ background_queue' = add_background_task(background_queue, Task("set_file", p))
            /\ UNCHANGED watched_files
    /\ restoring_files' = restoring_files \ {p}
    /\ files_with_changes' = d.files
    /\ pending_changes_count' = d.count
    /\ cycle' = cycle_off(p)

\* ======================================================= commit entry points
IdleCommit == [pc |-> "idle", path |-> "", hash |-> NoHash, snap |-> EmptyIndex, ts |-> 0]

\* a caller that goes on to the record whatever create_backup did
always_continues(ok) == TRUE

\* the try/except around create_backup: the record is written only if it returned
commit_continues(ok) == ok

\* tracked_files[path]["versions"][current_hash] = {...} on the caller's snapshot
with_record(snap, p, h, ts) ==
    [snap EXCEPT ![p] = [present |-> TRUE,
                         versions |-> PutVersion(IF snap[p].present THEN snap[p].versions
                                                 ELSE <<>>, h, ts)]]

\* CommitPage._commit_file_action and _perform_commit: load the index, hash the
\* file; when nothing changed the user is asked and answers yes
_perform_commit(p) ==
    /\ commit["page"].pc = "idle"
    /\ fileContent[p] # 0
    /\ ~load_raises          \* otherwise "Failed to commit" and nothing else
    /\ LET tracked == load_tracked_files
           r == has_file_changed(p, tracked)
       IN commit' = [commit EXCEPT !["page"] =
                        [pc |-> "backup", path |-> p, hash |-> r.cur,
                         snap |-> tracked, ts |-> 0]]
    /\ UNCHANGED <<auxVars, fsVars, storeVars, dialogs, restore, monVars, obsVars>>

\* CommitPage._continue_commit, first half: create_backup
_continue_commit_backup(max_backups) ==
    LET c == commit["page"] IN
    /\ c.pc = "backup"
    /\ now < MaxClock
    /\ \E fails \in SUBSET removal_candidates(c.path, c.hash, max_backups) :
           create_backup(c.path, c.hash, max_backups, fails)
    /\ commit' = [commit EXCEPT !["page"] =
                     IF commit_continues(can_read(c.path))
                     THEN [c EXCEPT !.pc = "record"] ELSE IdleCommit]
    /\ UNCHANGED <<auxVars, fileContent, fileMtime, locked, legacy, dialogs, restore,
                   monVars, cycle, post>>

\* CommitPage._continue_commit, second half: metadata, record, save, monitor
_continue_commit_record ==
    LET c == commit["page"]
        snap2 == with_record(c.snap, c.path, c.hash, now)
    IN
    /\ c.pc = "record"
    /\ commit' = [commit EXCEPT !["page"] = IdleCommit]
    /\ IF fileContent[c.path] = 0
       THEN \* os.stat raises: nothing is saved
            UNCHANGED <<index, background_queue, tracked_files>>
       ELSE /\ index' = snap2
            /\ background_queue' =
                   IF ~c.snap[c.path].present
                   THEN add_background_task(background_queue, Task("add_new_file", c.path))
                   ELSE background_queue
            /\ tracked_files' = refresh_tracked_files(snap2)
    /\ UNCHANGED <<auxVars, fsVars, blobs, legacy, known_missing, temp_backups, dialogs,
                   restore, watched_files, restoring_files, files_with_changes,
                   pending_changes_count, is_monitoring, running, lock, mon,
                   cooldown, obsVars>>

\* CommitPage._continue_commit, second half as far as save_tracked_files'
\* open(self.tracked_files_path, "w"): the file is truncated
_continue_commit_open ==
    LET c == commit["page"] IN
    /\ c.pc = "record"
    /\ IF fileContent[c.path] = 0
       THEN \* os.stat raises: nothing is saved
            /\ commit' = [commit EXCEPT !["page"] = IdleCommit]
            /\ UNCHANGED index_file
       ELSE /\ commit' = [commit EXCEPT !["page"] = [c EXCEPT !.pc = "dump", !.ts = now]]
            /\ index_file' = "torn"
    /\ UNCHANGED <<last_load, pick, last_restore, pass_log, owed, fsVars, storeVars, dialogs,
                   restore, monVars, obsVars>>

\* save_tracked_files' json.dump has written the whole document and the file is
\* closed; then add_new_file and refresh_tracked_files
_continue_commit_dump ==
    LET c == commit["page"]
        snap2 == with_record(c.snap, c.path, c.hash, c.ts)
    IN
    /\ c.pc = "dump"
    /\ commit' = [commit EXCEPT !["page"] = IdleCommit]
    /\ index' = snap2
    /\ index_file' = "ok"
    /\ background_queue' =
           IF ~c.snap[c.path].present
           THEN add_background_task(background_queue, Task("add_new_file", c.path))
           ELSE background_queue
    /\ tracked_files' = refresh_tracked_files(snap2)
    /\ UNCHANGED <<last_load, pick, last_restore, pass_log, owed, fsVars, blobs, legacy,
                   known_missing, temp_backups, dialogs, restore, watched_files,
                   restoring_files, files_with_changes, pending_changes_count,
                   is_monitoring, running, lock, mon, cooldown, obsVars>>

\* the document a save under way is writing
being_saved ==
    LET c == commit["page"] IN
    IF c.pc = "dump" THEN with_record(c.snap, c.path, c.hash, c.ts) ELSE index

\* FileMonitor.refresh_tracked_files called from another thread (it takes no
\* lock): load_tracked_files, observed; an exception is caught and logged
reload_index ==
    /\ last_load' = [file |-> index_file, value |-> load_tracked_files,
                     raised |-> load_raises, saving |-> commit["page"].pc = "dump",
                     old |-> index, new |-> being_saved]
    /\ tracked_files' = IF load_raises THEN tracked_files
                        ELSE refresh_tracked_files(load_tracked_files)
    /\ UNCHANGED <<pick, index_file, last_restore, pass_log, owed, fsVars, storeVars, uiVars,
                   watched_files, restoring_files, files_with_changes,
                   pending_changes_count, background_queue, is_monitoring, running,
                   lock, mon, cooldown, obsVars>>

\* tracked_files.json is deleted, cut short or overwritten from outside while no
\* commit is under way
damage_index(kind) ==
    /\ commit["page"].pc = "idle"
    /\ index_file = "ok"
    /\ index_file' = kind
    /\ UNCHANGED <<last_load, pick, last_restore, pass_log, owed, fsVars, storeVars, uiVars,
                   monVars, obsVars>>

\* MainWindow.show_commit_dialog: a QuickCommitDialog is created
show_commit_dialog(p) == [dialogs EXCEPT ![p] = now]

\* QuickCommitDialog.cancel
cancel(p) ==
    /\ dialogs[p] # 0
    /\ ~(commit["dialog"].pc # "idle" /\ commit["dialog"].path = p)
    /\ dialogs' = [dialogs EXCEPT ![p] = 0]
    /\ UNCHANGED <<auxVars, fsVars, storeVars, commit, restore, monVars, obsVars>>

\* QuickCommitDialog.save: load the index, hash the file
save_load(p) ==
    /\ dialogs[p] # 0
    /\ commit["dialog"].pc = "idle"
    /\ fileContent[p] # 0
    /\ LET tracked == load_tracked_files
           r == has_file_changed(p, tracked)
       IN IF r.changed
          THEN /\ commit' = [commit EXCEPT !["dialog"] =
                                [pc |-> "backup", path |-> p, hash |-> r.cur,
                                 snap |-> tracked, ts |-> dialogs[p]]]
               /\ UNCHANGED dialogs
          ELSE /\ dialogs' = [dialogs EXCEPT ![p] = 0]
               /\ UNCHANGED commit
    /\ UNCHANGED <<auxVars, fsVars, storeVars, restore, monVars, obsVars>>

\* QuickCommitDialog.save: create_backup
save_backup(max_backups) ==
    LET c == commit["dialog"] IN
    /\ c.pc = "backup"
    /\ now < MaxClock
    /\ \E fails \in SUBSET removal_candidates(c.path, c.hash, max_backups) :
           create_backup(c.path, c.hash, max_backups, fails)
    /\ commit' = [commit EXCEPT !["dialog"] =
                     IF commit_continues(can_read(c.path))
                     THEN [c EXCEPT !.pc = "record"] ELSE IdleCommit]
    /\ UNCHANGED <<auxVars, fileContent, fileMtime, locked, legacy, dialogs, restore,
                   monVars, cycle, post>>

\* QuickCommitDialog.save: metadata, record, save_tracked_files
save_record ==
    LET c == commit["dialog"] IN
    /\ c.pc = "record"
    /\ IF fileContent[c.path] = 0
       THEN /\ commit' = [commit EXCEPT !["dialog"] = IdleCommit]
            /\ UNCHANGED index
       ELSE /\ index' = with_record(c.snap, c.path, c.hash, c.ts)
            /\ commit' = [commit EXCEPT !["dialog"].pc = "update"]
    /\ UNCHANGED <<auxVars, fsVars, blobs, legacy, known_missing, temp_backups, dialogs,
                   restore, monVars, obsVars>>

\* QuickCommitDialog.save: update_after_commit, then the dialog closes
save_update ==
    LET c == commit["dialog"] IN
    /\ c.pc = "update"
    /\ update_after_commit(c.path, c.hash, load_tracked_files)
    /\ commit' = [commit EXCEPT !["dialog"] = IdleCommit]
    /\ dialogs' = [dialogs EXCEPT ![c.path] = 0]
    /\ UNCHANGED <<auxVars, fsVars, storeVars, restore, is_monitoring, running, lock, mon,
                   cooldown, post, run, evicted, last_backup, committed>>


\* ==================================================== the restore entry point
IdleRestore == [pc |-> "idle", path |-> "", hash |-> NoHash]

\* FileMonitor.mark_file_as_restoring
mark_file_as_restoring(rf, p) == rf \cup {p}

\* RestorePage._restore_selected_version: the availability check, the
\* confirmation, and the worker thread is started
_restore_selected_version(p, h) ==
    /\ restore.pc = "idle"
    /\ index[p].present /\ h \in VersionHashes(index[p].versions)   \* a listed version
    /\ known_missing' = cache_after_check(p, h)
    /\ restore' = IF backup_exists(p, h) THEN [pc |-> "start", path |-> p, hash |-> h]
                  ELSE restore
    /\ UNCHANGED <<auxVars, fsVars, blobs, legacy, temp_backups, index, commit, dialogs,
                   monVars, obsVars>>

\* do_restore: mark_file_as_restoring (under the monitor's lock)
do_restore_mark ==
    /\ restore.pc = "start"
    /\ lock = "free"
    /\ restoring_files' = mark_file_as_restoring(restoring_files, restore.path)
    /\ restore' = [restore EXCEPT !.pc = "marked"]
    /\ UNCHANGED <<auxVars, fsVars, storeVars, commit, dialogs, watched_files, tracked_files,
                   files_with_changes, pending_changes_count, background_queue,
                   is_monitoring, running, lock, mon, cooldown, obsVars>>

\* do_restore: restore_file_version; an exception ends the thread
do_restore_write(platform, unlink_fails) ==
    LET p == restore.path
        h == restore.hash
        ok == backup_exists(p, h)
              /\ restore_outcome(p, h, platform, unlink_fails) = "ok"
    IN
    /\ restore.pc = "marked"
    /\ now < MaxClock
    /\ restore_file_version(p, h, platform, unlink_fails)
    /\ restore' = IF ok THEN [restore EXCEPT !.pc = "restored"] ELSE IdleRestore
    /\ cycle' = IF ok THEN cycle_off(p) ELSE cycle
    /\ post' = IF ok /\ watched_files[p].watched
                     /\ watched_files[p].hash # calculate_file_hash(restored_bytes(p, h))
               THEN [post EXCEPT ![p] = "restored"]
               ELSE IF ok THEN [post EXCEPT ![p] = "na"] ELSE post
    /\ UNCHANGED <<auxVars, locked, blobs, legacy, index, commit, dialogs, monVars, run,
                   evicted, last_backup, committed>>

\* BackupManager.restore_file_version called by any caller, for any hash
restore_call(p, h, platform, unlink_fails) ==
    LET ok == restore_result(p, h, platform, unlink_fails) = "ok" IN
    /\ now < MaxClock
    /\ restore_file_version(p, h, platform, unlink_fails)
    /\ \E sibling \in sibling_outcomes(p, h, platform, unlink_fails) :
           last_restore' = RestoreCall(p, h, platform, unlink_fails, sibling)
    /\ cycle' = IF ok THEN cycle_off(p) ELSE cycle
    /\ post' = IF ok THEN [post EXCEPT ![p] = "na"] ELSE post
    /\ UNCHANGED <<index_file, last_load, pick, pass_log, owed, locked, blobs, legacy, index,
                   uiVars, monVars, run, evicted, last_backup, committed>>

\* BackupManager.restore_file_version when the read of the blob raises part way
\* (BadGzipFile, EOFError, an I/O error in shutil.copyfileobj): the existence
\* check, the staging copy and the open of the destination are already done.
\*   regular files: open(target, 'wb') has truncated the target, which keeps the
\*                  bytes c written before the exception
\*   office files:  the bytes went to temp_<name>; the except clause removes it,
\*                  unless that os.remove fails in turn
restore_call_read_error(p, h, c) ==
    LET office == Ext(p) \in OfficeExts IN
    /\ now < MaxClock
    /\ restore_result(p, h, "Linux", FALSE) = "ok"
    /\ known_missing' = cache_after_check(p, h)
    /\ temp_backups' = staging_copy(p)
    /\ IF office
       THEN UNCHANGED <<fileContent, fileMtime, now>>
       ELSE /\ fileContent' = [fileContent EXCEPT ![p] = c]
            /\ fileMtime' = [fileMtime EXCEPT ![p] = now + 1]
            /\ now' = now + 1
    /\ \E sibling \in (IF office THEN BOOLEAN ELSE {FALSE}) :
           last_restore' = [path |-> p, hash |-> h, outcome |-> "failed",
                            had_blob |-> TRUE, found |-> TRUE,
                            content |-> 0, locked |-> locked[p],
                            before |-> fileContent[p],
                            after |-> IF office THEN fileContent[p] ELSE c,
                            staged |-> staging_copy(p) # temp_backups,
                            sibling |-> sibling]
    /\ cycle' = IF office THEN cycle ELSE cycle_off(p)
    /\ post' = IF office THEN post ELSE [post EXCEPT ![p] = "na"]
    /\ UNCHANGED <<index_file, last_load, pick, pass_log, owed, locked, blobs, legacy, index,
                   uiVars, monVars, run, evicted, last_backup, committed>>

\* do_restore: the page's own reset of the watch entry, under the monitor's lock
do_restore_reset ==
    LET p == restore.path IN
    /\ restore.pc = "restored"
    /\ lock = "free"
    /\ restoring_files' = restoring_files \ {p}
    /\ watched_files' = [watched_files EXCEPT ![p] =
                            IF fileContent[p] # 0 THEN fresh_entry(p, FALSE)
                            ELSE NotWatched]
    /\ restore' = IdleRestore
    /\ cycle' = cycle_off(p)
    /\ UNCHANGED <<auxVars, fsVars, storeVars, commit, dialogs, tracked_files,
                   files_with_changes, pending_changes_count, background_queue,
                   is_monitoring, running, lock, mon, cooldown, post, run,
                   evicted, last_backup, committed>>

\* ================================================ FileMonitor: UI requests
\* FileMonitor.set_file(path): the work is queued for the background thread
set_file(p) ==
    /\ Len(background_queue) < MaxQueue
    /\ background_queue' = add_background_task(background_queue, Task("set_file", p))
    /\ UNCHANGED <<auxVars, fsVars, storeVars, uiVars, watched_files, restoring_files,
                   tracked_files, files_with_changes, pending_changes_count,
                   is_monitoring, running, lock, mon, cooldown, obsVars>>

\* FileMonitor.clear_pending_changes, under the lock
clear_pending_changes ==
    /\ lock = "free"
    /\ files_with_changes' = {}
    /\ pending_changes_count' = 0
    /\ UNCHANGED <<auxVars, fsVars, storeVars, uiVars, watched_files, restoring_files,
                   tracked_files, background_queue, is_monitoring, running, lock, mon,
                   cooldown, obsVars>>

\* FileMonitor.force_reset_monitoring(path), under the lock
force_reset_monitoring(p) ==
    LET d == drop_pending(files_with_changes, pending_changes_count, p) IN
    /\ lock = "free"
    /\ Len(background_queue) < MaxQueue
    /\ watched_files' = [watched_files EXCEPT ![p] = NotWatched]
    /\ restoring_files' = restoring_files \ {p}
    /\ files_with_changes' = d.files
    /\ pending_changes_count' = d.count
    /\ background_queue' = add_background_task(background_queue, Task("set_file", p))
    /\ cycle' = cycle_off(p)
    /\ post' = IF post[p] = "restored" THEN [post EXCEPT ![p] = "reset"] ELSE post
    /\ UNCHANGED <<auxVars, fsVars, storeVars, uiVars, tracked_files, is_monitoring, running,
                   lock, mon, cooldown, run, evicted, last_backup, committed>>

\* the dialog cooldown of a path (2.0 seconds) has passed
CooldownPasses(p) ==
    /\ p \in cooldown
    /\ cooldown' = cooldown \ {p}
    /\ UNCHANGED <<auxVars, fsVars, storeVars, uiVars, watched_files, restoring_files,
                   tracked_files, files_with_changes, pending_changes_count,
                   background_queue, is_monitoring, running, lock, mon, obsVars>>

\* ========================================== FileMonitor: the background thread
\* _cleanup_file(path): the entry and the pending mark go
_cleanup_file(p) ==
    LET d == drop_pending(files_with_changes, pending_changes_count, p) IN
    /\ watched_files' = [watched_files EXCEPT ![p] = NotWatched]
    /\ files_with_changes' = d.files
    /\ pending_changes_count' = d.count

\* _set_file_task(path), under the lock
_set_file_task(p) ==
    /\ IF fileContent[p] # 0
       THEN /\ watched_files' = [watched_files EXCEPT ![p] = fresh_entry(p, TRUE)]
            /\ UNCHANGED <<files_with_changes, pending_changes_count>>
       ELSE _cleanup_file(p)
    /\ cycle' = cycle_off(p)
    /\ UNCHANGED tracked_files

\* _add_new_file_task(path), under the lock: reload the index, then set_file
_add_new_file_task(p) ==
    /\ tracked_files' = refresh_tracked_files(load_tracked_files) \cup {p}
    /\ UNCHANGED <<watched_files, files_with_changes, pending_changes_count, cycle>>

\* the tasks a task itself queues
queued_by(t) ==
    IF t.task = "add_new_file" /\ ~watched_files[t.path].watched
    THEN <<Task("set_file", t.path)>>
    ELSE <<>>

\* _background_monitor, first half of an iteration: at most one queued task
run_task ==
    /\ mon.pc = "task"
    /\ running
    /\ IF background_queue = <<>>
       THEN UNCHANGED <<background_queue, watched_files, tracked_files,
                        files_with_changes, pending_changes_count, cycle>>
       ELSE LET t == Head(background_queue) IN
            /\ lock = "free"
            /\ background_queue' = Tail(background_queue) \o queued_by(t)
            /\ IF t.task = "set_file" THEN _set_file_task(t.path)
               ELSE _add_new_file_task(t.path)
    /\ mon' = [mon EXCEPT !.pc = "check"]
    /\ UNCHANGED <<auxVars, fsVars, storeVars, uiVars, restoring_files, is_monitoring,
                   running, lock, cooldown, post, run, evicted, last_backup,
                   committed>>

\* a loop that runs the pass whether or not monitoring is paused
pass_while_paused(r, m) == r

\* "if self.running and not self._stop_event.is_set() and self.is_monitoring",
\* and check_for_changes' own "if not self.is_monitoring: return"
pass_wanted(r, m) == r /\ m

\* _background_monitor, second half: check_for_changes takes the lock and lists
\* the watched paths, or is skipped while monitoring is paused
begin_pass ==
    /\ mon.pc = "check"
    /\ IF pass_wanted(running, is_monitoring)
       THEN /\ lock = "free"
            /\ lock' = "held"
            /\ mon' = [pc |-> "pass",
                       todo |-> {p \in Paths : watched_files[p].watched}]
       ELSE /\ mon' = [mon EXCEPT !.pc = "task"]
            /\ UNCHANGED lock
    /\ UNCHANGED <<auxVars, fsVars, storeVars, uiVars, watched_files, restoring_files,
                   tracked_files, files_with_changes, pending_changes_count,
                   background_queue, is_monitoring, running, cooldown, obsVars>>

\* _is_file_closed: open(path, 'rb+') succeeds, or two sizes read 0.1 s apart agree
is_file_closed_outcomes(p) == IF locked[p] THEN BOOLEAN ELSE {TRUE}

\* the entry _handle_file_closed writes before it decides about the prompt
closed_entry(p, current_hash) ==
    [watched |-> TRUE, hash |-> current_hash, mtime |-> getmtime(p),
     size |-> getsize(fileContent[p]), is_open |-> FALSE]

\* a prompt for every close event outside the cooldown
prompt_any(p, tracked) == p \notin cooldown

\* _handle_file_closed asks for the commit prompt
wants_prompt(p, tracked) == p \in tracked /\ p \notin cooldown

\* a close event for every change of content
close_on_change(was_open, is_closed, has_changed) == has_changed

\* "if was_open and is_closed and has_changed": _handle_file_closed is called
close_event(was_open, is_closed, has_changed) == was_open /\ is_closed /\ has_changed

\* what one visit of the loop body did: fault is the step that raised ("none",
\* "key", "stat", "hash", "callback"), hashed: the content hash was computed,
\* was_open, closed, changed: the three tests, callback: callback(path, True) was
\* invoked, handler: _handle_file_closed was called, updated: the entry holds the
\* hash and mtime that were read and the open-state that was judged
Visit(fault, hashed, was_open, closed, changed, callback, handler, updated) ==
    [visited |-> TRUE, fault |-> fault, hashed |-> hashed, was_open |-> was_open,
     closed |-> closed, changed |-> changed, callback |-> callback,
     handler |-> handler, updated |-> updated]

\* the pass under way has not come to the path
NoVisit == [visited |-> FALSE, fault |-> "none", hashed |-> FALSE, was_open |-> FALSE,
            closed |-> FALSE, changed |-> FALSE, callback |-> FALSE,
            handler |-> FALSE, updated |-> FALSE]

\* the entry holds what the visit read: the hash, the mtime, the open-state
entry_holds(entry, current_hash, current_mtime, is_closed) ==
    /\ entry.hash = current_hash
    /\ entry.mtime = current_mtime
    /\ entry.is_open = ~is_closed

Skipped(fault) == Visit(fault, FALSE, FALSE, FALSE, FALSE, FALSE, FALSE, FALSE)

\* check_for_changes, the loop body for one path, the lock being held.
\* is_closed is what _is_file_closed answers; fault names the step that raises
\* an exception, which "except Exception" catches and logs.
loop_body(p, is_closed, fault) ==
    LET e == watched_files[p]
        current_hash == calculate_file_hash(fileContent[p])
        has_changed == current_hash # e.hash
        closing == close_event(e.is_open, is_closed, has_changed)
        reloaded == refresh_tracked_files(load_tracked_files)
        entry == [closed_entry(p, current_hash) EXCEPT !.is_open = ~is_closed]
    IN
    /\ mon.pc = "pass"
    /\ p \in mon.todo
    /\ is_closed \in is_file_closed_outcomes(p)
    /\ IF fileContent[p] = 0
       THEN \* the file is gone
            /\ fault = "none"
            /\ _cleanup_file(p)
            /\ mon' = [mon EXCEPT !.todo = @ \ {p}]
            /\ pass_log' = [pass_log EXCEPT ![p] = Skipped("none")]
            /\ UNCHANGED <<tracked_files, restoring_files, dialogs, cooldown, cycle,
                           post>>
       ELSE IF ~e.watched
       THEN \* the entry went while the pass was under way: self.watched_files[file_path]
            \* raises KeyError, which the loop body catches and logs
            /\ fault = "none"
            /\ mon' = [mon EXCEPT !.todo = @ \ {p}]
            /\ pass_log' = [pass_log EXCEPT ![p] = Skipped("key")]
            /\ UNCHANGED <<watched_files, tracked_files, restoring_files, dialogs,
                           cooldown, cycle, post, files_with_changes,
                           pending_changes_count>>
       ELSE IF fault = "stat"
       THEN \* os.path.getmtime or os.path.getsize raises
            /\ mon' = [mon EXCEPT !.todo = @ \ {p}]
            /\ pass_log' = [pass_log EXCEPT ![p] = Skipped("stat")]
            /\ UNCHANGED <<watched_files, tracked_files, restoring_files, dialogs,
                           cooldown, cycle, post, files_with_changes,
                           pending_changes_count>>
       ELSE IF getsize(fileContent[p]) # e.size
       THEN \* still being written
            /\ fault = "none"
            /\ watched_files' = [watched_files EXCEPT
                                    ![p].size = getsize(fileContent[p]),
                                    ![p].is_open = TRUE]
            /\ mon' = [mon EXCEPT !.todo = @ \ {p}]
            /\ post' = post_on_pass(p, FALSE)
            /\ pass_log' = [pass_log EXCEPT ![p] = Skipped("none")]
            /\ UNCHANGED <<tracked_files, restoring_files, dialogs, cooldown, cycle,
                           files_with_changes, pending_changes_count>>
       ELSE IF getmtime(p) = e.mtime
       THEN \* nothing happened
            /\ fault = "none"
            /\ mon' = [mon EXCEPT !.todo = @ \ {p}]
            /\ post' = post_on_pass(p, FALSE)
            /\ pass_log' = [pass_log EXCEPT ![p] = Skipped("none")]
            /\ UNCHANGED <<watched_files, tracked_files, restoring_files, dialogs,
                           cooldown, cycle, files_with_changes,
                           pending_changes_count>>
       ELSE IF fault = "hash"
       THEN \* calculate_file_hash raises: the file cannot be read
            /\ mon' = [mon EXCEPT !.todo = @ \ {p}]
            /\ pass_log' = [pass_log EXCEPT ![p] = Skipped("hash")]
            /\ UNCHANGED <<watched_files, tracked_files, restoring_files, dialogs,
                           cooldown, cycle, post, files_with_changes,
                           pending_changes_count>>
       ELSE IF closing /\ p \in restoring_files
       THEN \* _handle_file_closed calls unmark_file_as_restoring, which waits
            \* for the lock this very thread holds
            /\ fault = "none"
            /\ tracked_files' = reloaded
            /\ watched_files' = [watched_files EXCEPT ![p] = closed_entry(p, current_hash)]
            /\ mon' = [mon EXCEPT !.pc = "blocked"]
            /\ cycle' = cycle_on_close(cycle_on_hash(p, FALSE), p, TRUE)
            /\ pass_log' = [pass_log EXCEPT ![p] =
                               Visit("none", TRUE, e.is_open, is_closed, has_changed,
                                     FALSE, TRUE,
                                     entry_holds(closed_entry(p, current_hash),
                                                 current_hash, getmtime(p), is_closed))]
            /\ UNCHANGED <<restoring_files, dialogs, cooldown, post,
                           files_with_changes, pending_changes_count>>
       ELSE \* fault = "callback": self.callback raises, after everything else
            /\ fault = "callback" => has_changed
            /\ tracked_files' = IF closing THEN reloaded ELSE tracked_files
            /\ IF closing /\ wants_prompt(p, reloaded)
               THEN /\ dialogs' = show_commit_dialog(p)
                    /\ cooldown' = cooldown \cup {p}
               ELSE UNCHANGED <<dialogs, cooldown>>
            /\ watched_files' = [watched_files EXCEPT ![p] = entry]
            /\ IF has_changed
               THEN /\ files_with_changes' = files_with_changes \cup {p}
                    /\ pending_changes_count' =
                           IF p \in files_with_changes THEN pending_changes_count
                           ELSE pending_changes_count + 1
               ELSE UNCHANGED <<files_with_changes, pending_changes_count>>
            /\ post' = post_on_pass(p, has_changed)
            /\ cycle' = cycle_on_close(cycle_on_hash(p, has_changed), p, closing)
            /\ mon' = [mon EXCEPT !.todo = @ \ {p}]
            /\ pass_log' = [pass_log EXCEPT ![p] =
                               Visit(fault, TRUE, e.is_open, is_closed, has_changed,
                                     has_changed, closing,
                                     entry_holds(entry, current_hash, getmtime(p),
                                                 is_closed))]
            /\ UNCHANGED restoring_files
    /\ UNCHANGED <<index_file, last_load, pick, last_restore, owed, fsVars, storeVars, commit,
                   restore, background_queue, is_monitoring, running, lock, run,
                   evicted, last_backup, committed>>

\* a visit in which nothing raises
check_path(p, is_closed) == loop_body(p, is_closed, "none")

\* a visit in which a step raises: the stat calls, the hash, or the callback
check_path_raises(p, is_closed, fault) ==
    /\ fault \in {"stat", "hash", "callback"}
    /\ loop_body(p, is_closed, fault)

\* check_for_changes returns: the lock is released, the loop sleeps 0.5 s
end_pass ==
    /\ mon.pc = "pass"
    /\ mon.todo = {}
    /\ lock' = "free"
    /\ mon' = [mon EXCEPT !.pc = "task"]
    /\ pass_log' = [p \in Paths |-> NoVisit]
    /\ UNCHANGED <<index_file, last_load, pick, last_restore, owed, fsVars, storeVars, uiVars,
                   watched_files, restoring_files, tracked_files, files_with_changes,
                   pending_changes_count, background_queue, is_monitoring, running,
                   cooldown, obsVars>>

\* ============================================ FileMonitor: pause, resume, stop
\* FileMonitor.pause (takes no lock)
pause ==
    /\ is_monitoring
    /\ is_monitoring' = FALSE
    /\ UNCHANGED <<auxVars, fsVars, storeVars, uiVars, watched_files, restoring_files,
                   tracked_files, files_with_changes, pending_changes_count,
                   background_queue, running, lock, mon, cooldown, obsVars>>

\* FileMonitor.resume (takes no lock)
resume ==
    /\ ~is_monitoring
    /\ is_monitoring' = TRUE
    /\ UNCHANGED <<auxVars, fsVars, storeVars, uiVars, watched_files, restoring_files,
                   tracked_files, files_with_changes, pending_changes_count,
                   background_queue, running, lock, mon, cooldown, obsVars>>

\* FileMonitor.stop: the flag is set; background_queue.join(timeout=2.0) raises
\* TypeError (Queue.join takes no timeout), which the bare except swallows, so
\* nothing waits for the queue; background_thread.join(timeout=2.0) waits for the
\* thread at most two seconds
stop ==
    /\ running
    /\ running' = FALSE
    /\ owed' = Len(background_queue)
    /\ UNCHANGED <<index_file, last_load, pick, last_restore, pass_log, fsVars, storeVars,
                   uiVars, watched_files, restoring_files, tracked_files,
                   files_with_changes, pending_changes_count, background_queue,
                   is_monitoring, lock, mon, cooldown, obsVars>>

\* SharedState.untrack_file: _cleanup_file is called without the monitor's lock
untrack_file(p) ==
    /\ watched_files[p].watched
    /\ _cleanup_file(p)
    /\ cycle' = cycle_off(p)
    /\ UNCHANGED <<auxVars, fsVars, storeVars, uiVars, restoring_files, tracked_files,
                   background_queue, is_monitoring, running, lock, mon, cooldown,
                   post, run, evicted, last_backup, committed>>

\* _background_monitor: "while self.running and not self._stop_event.is_set()"
loop_check ==
    /\ mon.pc = "task"
    /\ mon' = [mon EXCEPT !.pc = IF running THEN "get" ELSE "exited"]
    /\ UNCHANGED <<auxVars, fsVars, storeVars, uiVars, watched_files, restoring_files,
                   tracked_files, files_with_changes, pending_changes_count,
                   background_queue, is_monitoring, running, lock, cooldown, obsVars>>

\* _background_monitor: background_queue.get(timeout=0.5) and the task it returns,
\* or queue.Empty after half a second
get_task ==
    /\ mon.pc = "get"
    /\ IF background_queue = <<>>
       THEN UNCHANGED <<background_queue, watched_files, tracked_files,
                        files_with_changes, pending_changes_count, cycle, owed>>
       ELSE LET t == Head(background_queue) IN
            /\ lock = "free"
            /\ background_queue' = Tail(background_queue) \o queued_by(t)
            /\ IF t.task = "set_file" THEN _set_file_task(t.path)
               ELSE _add_new_file_task(t.path)
            /\ owed' = IF owed > 0 THEN owed - 1 ELSE 0
    /\ mon' = [mon EXCEPT !.pc = "check"]
    /\ UNCHANGED <<index_file, last_load, pick, last_restore, pass_log, fsVars, storeVars,
                   uiVars, restoring_files, is_monitoring, running, lock, cooldown,
                   post, run, evicted, last_backup, committed>>

\* ======================================================================= Init
InitFs ==
    /\ fileContent = [p \in Paths |-> 1]
    /\ fileMtime = [p \in Paths |-> 1]
    /\ locked = [p \in Paths |-> FALSE]
    /\ now = 1

InitUi ==
    /\ commit = [c \in {"page", "dialog"} |-> IdleCommit]
    /\ dialogs = [p \in Paths |-> 0]
    /\ restore = IdleRestore

\* FileMonitor.__init__
InitMonitor ==
    /\ watched_files = [p \in Paths |-> NotWatched]
    /\ restoring_files = {}
    /\ tracked_files = tracked_paths(index)
    /\ files_with_changes = {}
    /\ pending_changes_count = 0
    /\ background_queue = <<>>
    /\ is_monitoring = TRUE
    /\ running = TRUE
    /\ lock = "free"
    /\ mon = [pc |-> "task", todo |-> {}]
    /\ cooldown = {}

InitObs ==
    /\ cycle = [p \in Paths |-> NoCycle]
    /\ post = [p \in Paths |-> "na"]
    /\ run = [p \in Paths |-> NoRun]
    /\ evicted = [p \in Paths |-> {}]
    /\ last_backup = BackupCall("", NoHash, 0, FALSE, FALSE, FALSE)
    /\ committed = [p \in Paths |-> {}]

NoLoad == [file |-> "", value |-> EmptyIndex, raised |-> FALSE, saving |-> FALSE,
           old |-> EmptyIndex, new |-> EmptyIndex]
NoRestore == [path |-> "", hash |-> NoHash, outcome |-> "", had_blob |-> FALSE,
              found |-> FALSE, content |-> 0, locked |-> FALSE, before |-> 0,
              after |-> 0, staged |-> FALSE, sibling |-> FALSE]
NoPick == [versions |-> <<>>, parsed |-> NoHash, raw |-> NoHash]

InitAux ==
    /\ index_file = "ok"
    /\ last_load = NoLoad
    /\ last_restore = NoRestore
    /\ pass_log = [p \in Paths |-> NoVisit]
    /\ owed = 0
    /\ pick = NoPick

\* a fresh installation: no blob, no index; possibly blobs of the legacy layout
Init ==
    /\ InitFs
    /\ blobs = [p \in Paths |-> [h \in Hashes |-> NoBlob]]
    /\ legacy = [p \in Paths |-> {}]
    /\ known_missing = {}
    /\ temp_backups = {}
    /\ index = EmptyIndex
    /\ InitUi
    /\ InitMonitor
    /\ InitObs
    /\ InitAux

\* ================================================ the store and its callers
\* The monitor's commit prompt reaches the store as an event: a dialog can be
\* created for a path of the index (_handle_file_closed asks no more of the index)
PromptArrives(p) ==
    /\ index[p].present
    /\ dialogs[p] = 0
    /\ dialogs' = show_commit_dialog(p)
    /\ UNCHANGED <<auxVars, fsVars, storeVars, commit, restore, monVars, obsVars>>

StorePaths == {"d/notes.txt"}

StoreNext ==
    \/ \E p \in StorePaths, c \in Contents : UserWrite(p, c)
    \/ \E p \in StorePaths : _perform_commit(p)
    \/ \E n \in 1..MaxBackupsBound : _continue_commit_backup(n)
    \/ _continue_commit_record
    \/ \E p \in StorePaths, h \in Hashes : check_backup_exists(p, h)
    \/ \E p \in StorePaths, h \in Hashes : get_version_content(p, h)

StoreSpec == Init /\ [][StoreNext]_vars


\* ================================================== commits from both entries
\* the file has been selected on the commit page: the monitor watches it
CommitInit ==
    /\ InitFs
    /\ blobs = [p \in Paths |-> [h \in Hashes |-> NoBlob]]
    /\ legacy = [p \in Paths |-> {}]
    /\ known_missing = {}
    /\ temp_backups = {}
    /\ index = EmptyIndex
    /\ InitUi
    /\ watched_files = [p \in Paths |-> IF p \in StorePaths THEN fresh_entry(p, TRUE)
                                        ELSE NotWatched]
    /\ restoring_files = {}
    /\ tracked_files = {}
    /\ files_with_changes = {}
    /\ pending_changes_count = 0
    /\ background_queue = <<>>
    /\ is_monitoring = TRUE
    /\ running = TRUE
    /\ lock = "free"
    /\ mon = [pc |-> "task", todo |-> {}]
    /\ cooldown = {}
    /\ InitObs
    /\ InitAux

CommitNext ==
    \/ \E p \in StorePaths, c \in Contents : now < CommitClock /\ UserWrite(p, c)
    \/ \E p \in StorePaths : UserDelete(p)
    \/ \E p \in StorePaths : _perform_commit(p)
    \/ \E n \in 1..MaxBackupsBound : now < CommitClock /\ _continue_commit_backup(n)
    \/ _continue_commit_record
    \/ \E p \in StorePaths : PromptArrives(p)
    \/ \E p \in StorePaths : cancel(p)
    \/ \E p \in StorePaths : save_load(p)
    \/ \E n \in 1..MaxBackupsBound : now < CommitClock /\ save_backup(n)
    \/ save_record
    \/ save_update

CommitSpec == CommitInit /\ [][CommitNext]_vars

\* ========================================================= commit and restore
RestoreNext ==
    \/ \E p \in Paths, c \in Contents : now < RestoreClock /\ UserWrite(p, c)
    \/ \E p \in Paths : ToggleLock(p)
    \/ \E p \in Paths : _perform_commit(p)
    \/ \E n \in 1..MaxBackupsBound : now < RestoreClock /\ _continue_commit_backup(n)
    \/ _continue_commit_record
    \/ \E p \in Paths, h \in Hashes : _restore_selected_version(p, h)
    \/ do_restore_mark
    \/ \E pl \in {"Windows", "Linux"}, uf \in BOOLEAN :
           now < RestoreClock /\ do_restore_write(pl, uf)
    \/ do_restore_reset
    \/ StagingAges

RestoreSpec == Init /\ [][RestoreNext]_vars

\* ================================================================ the monitor
\* every file has been committed once: one blob and one record per path
MonInit ==
    /\ fileContent = [p \in Paths |-> 1]
    /\ fileMtime = [p \in Paths |-> 1]
    /\ locked = [p \in Paths |-> FALSE]
    /\ now = 2
    /\ blobs = [p \in Paths |-> [h \in Hashes |->
                   IF h = calculate_file_hash(1)
                   THEN [data |-> gzip_compress(1), mtime |-> 2] ELSE NoBlob]]
    /\ legacy = [p \in Paths |-> {}]
    /\ known_missing = {}
    /\ temp_backups = {}
    /\ index = [p \in Paths |->
                   [present |-> TRUE,
                    versions |-> <<[hash |-> calculate_file_hash(1), ts |-> 2]>>]]
    /\ InitUi
    /\ InitMonitor
    /\ InitObs
    /\ InitAux

MonPaths == {"d/report.docx"}

MonNext ==
    \/ \E p \in MonPaths, c \in Contents : now < MonClock /\ UserWrite(p, c)
    \/ \E p \in MonPaths : UserDelete(p)
    \/ \E p \in MonPaths : ToggleLock(p)
    \/ \E p \in MonPaths : set_file(p)
    \/ \E p \in MonPaths : force_reset_monitoring(p)
    \/ \E p \in MonPaths : CooldownPasses(p)
    \/ \E p \in MonPaths, h \in Hashes : _restore_selected_version(p, h)
    \/ do_restore_mark
    \/ \E pl \in {"Windows", "Linux"}, uf \in BOOLEAN :
           now < MonClock /\ do_restore_write(pl, uf)
    \/ do_restore_reset
    \/ run_task
    \/ begin_pass
    \/ \E p \in MonPaths, is_closed \in BOOLEAN : check_path(p, is_closed)
    \/ end_pass

MonSpec == MonInit /\ [][MonNext]_vars

\* ======================================================= the detection pass
\* both files are watched, one of them is edited and held open by another
\* application; a step of the loop body may raise
PassNext ==
    \/ \E p \in MonPaths, c \in Contents : now < PassClock /\ UserWrite(p, c)
    \/ \E p \in MonPaths : ToggleLock(p)
    \/ \E p \in Paths : set_file(p)
    \/ \E p \in MonPaths : CooldownPasses(p)
    \/ run_task
    \/ begin_pass
    \/ \E p \in Paths, is_closed \in BOOLEAN : check_path(p, is_closed)
    \/ \E p \in Paths, is_closed \in BOOLEAN, fault \in {"stat", "hash", "callback"} :
           check_path_raises(p, is_closed, fault)
    \/ end_pass

PassSpec == MonInit /\ [][PassNext]_vars

\* ============================================== the monitor and the index
\* a fresh installation: the file is selected, committed, edited and restored
\* while the background thread runs its passes
PromptNext ==
    \/ \E p \in MonPaths, c \in Contents : now < PromptClock /\ UserWrite(p, c)
    \/ \E p \in MonPaths : ToggleLock(p)
    \/ \E p \in MonPaths : _perform_commit(p)
    \/ \E n \in 1..MaxBackupsBound : now < PromptClock /\ _continue_commit_backup(n)
    \/ _continue_commit_record
    \/ \E p \in MonPaths : set_file(p)
    \/ \E p \in MonPaths : CooldownPasses(p)
    \/ \E p \in MonPaths, h \in Hashes : _restore_selected_version(p, h)
    \/ do_restore_mark
    \/ \E pl \in {"Windows", "Linux"}, uf \in BOOLEAN :
           now < PromptClock /\ do_restore_write(pl, uf)
    \/ do_restore_reset
    \/ run_task
    \/ begin_pass
    \/ \E p \in MonPaths, is_closed \in BOOLEAN : check_path(p, is_closed)
    \/ end_pass

PromptSpec == Init /\ [][PromptNext]_vars

\* ================================================ the pending changes
\* the file has one committed version and is edited, deleted and committed again
\* from the commit page and from the prompt's dialog, while the passes run
PendingNext ==
    \/ \E p \in MonPaths, c \in Contents : now < PendingClock /\ UserWrite(p, c)
    \/ \E p \in MonPaths : UserDelete(p)
    \/ \E p \in MonPaths : _perform_commit(p)
    \/ \E n \in 1..MaxBackupsBound : now < PendingClock /\ _continue_commit_backup(n)
    \/ _continue_commit_record
    \/ \E p \in MonPaths : cancel(p)
    \/ \E p \in MonPaths : save_load(p)
    \/ \E n \in 1..MaxBackupsBound : now < PendingClock /\ save_backup(n)
    \/ save_record
    \/ save_update
    \/ \E p \in MonPaths : set_file(p)
    \/ \E p \in MonPaths : force_reset_monitoring(p)
    \/ clear_pending_changes
    \/ \E p \in MonPaths : CooldownPasses(p)
    \/ run_task
    \/ begin_pass
    \/ \E p \in MonPaths, is_closed \in BOOLEAN : check_path(p, is_closed)
    \/ end_pass

PendingSpec == MonInit /\ [][PendingNext]_vars

\* ================================================= the store's restore call
\* commits fill the store and another application locks the targets; then
\* restore_file_version is called once, for any path and hash
RestoreApiNext ==
    \/ \E p \in Paths, c \in Contents :
           last_restore = NoRestore /\ now < RestoreApiClock /\ UserWrite(p, c)
    \/ \E p \in Paths : last_restore = NoRestore /\ ToggleLock(p)
    \/ \E p \in Paths : last_restore = NoRestore /\ _perform_commit(p)
    \/ \E n \in 1..MaxBackupsBound :
           last_restore = NoRestore /\ now < ApiBackupClock /\ _continue_commit_backup(n)
    \/ last_restore = NoRestore /\ _continue_commit_record
    \/ \E p \in Paths, h \in Hashes, pl \in {"Windows", "Linux"}, uf \in BOOLEAN :
           last_restore = NoRestore /\ restore_call(p, h, pl, uf)
    \/ \E p \in Paths, h \in Hashes, c \in Contents :
           last_restore = NoRestore /\ restore_call_read_error(p, h, c)

RestoreApiSpec == Init /\ [][RestoreApiNext]_vars

\* ===================================================== two commits at once
\* the commit page's worker thread and the quick-commit dialog, each with its own
\* snapshot of the index: the page commits any file, the dialog the document
OverlapNext ==
    \/ \E p \in MonPaths, c \in Contents : now < OverlapClock /\ UserWrite(p, c)
    \/ \E p \in Paths : _perform_commit(p)
    \/ \E n \in 1..MaxBackupsBound : now < OverlapClock /\ _continue_commit_backup(n)
    \/ _continue_commit_record
    \/ \E p \in MonPaths : PromptArrives(p)
    \/ \E p \in MonPaths : save_load(p)
    \/ \E n \in 1..MaxBackupsBound : now < OverlapClock /\ save_backup(n)
    \/ save_record
    \/ save_update

OverlapSpec == Init /\ [][OverlapNext]_vars

\* ============================================ the most recent version
\* the date-times the records of one path are drawn from: two years, months and
\* days of one and of two digits, at 09:05:59
DateTimes ==
    {<<y, mo, d, 9, 5, 59>> : y \in {1999, 2024}, mo \in {2, 11}, d \in {9, 10}}

Timestamps == {strftime(dt) : dt \in DateTimes}

\* the "versions" dicts of up to MaxVersions records: distinct hashes, in the
\* order of insertion
VersionDicts ==
    UNION {{vs \in [1..n -> [hash : Hashes, timestamp : Timestamps]] :
               \A i, j \in 1..n : i # j => vs[i].hash # vs[j].hash} : n \in 1..MaxVersions}

PickInit ==
    /\ InitFs
    /\ blobs = [p \in Paths |-> [h \in Hashes |-> NoBlob]]
    /\ legacy = [p \in Paths |-> {}]
    /\ known_missing = {}
    /\ temp_backups = {}
    /\ index = EmptyIndex
    /\ InitUi
    /\ InitMonitor
    /\ InitObs
    /\ index_file = "ok"
    /\ last_load = NoLoad
    /\ last_restore = NoRestore
    /\ pass_log = [p \in Paths |-> NoVisit]
    /\ owed = 0
    /\ pick \in {[NoPick EXCEPT !.versions = vs] : vs \in VersionDicts}

\* VersionManager.has_file_changed selects the latest version
call_has_file_changed ==
    /\ pick.parsed = NoHash
    /\ pick' = [pick EXCEPT !.parsed = latest_version_parsed(pick.versions)]
    /\ UNCHANGED <<index_file, last_load, last_restore, pass_log, owed, fsVars,
                   storeVars, uiVars, monVars, obsVars>>

\* CommitPage._get_last_commit, QuickCommitDialog._get_last_commit
call_get_last_commit ==
    /\ pick.raw = NoHash
    /\ pick' = [pick EXCEPT !.raw = _get_last_commit(pick.versions)]
    /\ UNCHANGED <<index_file, last_load, last_restore, pass_log, owed, fsVars,
                   storeVars, uiVars, monVars, obsVars>>

PickNext ==
    \/ call_has_file_changed
    \/ call_get_last_commit

PickSpec == PickInit /\ [][PickNext]_vars

\* ================================================= the count of the tray
\* FileMonitor.update_after_commit(path, new_hash) called for a file as it is now
update_after_commit_call(p) ==
    /\ fileContent[p] # 0
    /\ Len(background_queue) < MaxQueue
    /\ update_after_commit(p, calculate_file_hash(fileContent[p]), load_tracked_files)
    /\ UNCHANGED <<auxVars, fsVars, storeVars, uiVars, is_monitoring, running, lock, mon,
                   cooldown, post, run, evicted, last_backup, committed>>

\* both files are edited, deleted and watched; passes, and the calls that take
\* a path off the pending set
CountNext ==
    \/ \E p \in Paths, c \in Contents : now < CountClock /\ UserWrite(p, c)
    \/ \E p \in Paths : UserDelete(p)
    \/ \E p \in Paths : set_file(p)
    \/ \E p \in Paths : update_after_commit_call(p)
    \/ \E p \in Paths : force_reset_monitoring(p)
    \/ clear_pending_changes
    \/ run_task \/ begin_pass
    \/ \E p \in Paths, is_closed \in BOOLEAN : check_path(p, is_closed)
    \/ end_pass

CountSpec == MonInit /\ [][CountNext]_vars

\* ============================================ a store of the legacy layout
\* an installation that an older release has filled: the blobs of some versions
\* lie under versions/<basename>/, the layout check_backup_exists falls back to
LegacyInit ==
    /\ InitFs
    /\ blobs = [p \in Paths |-> [h \in Hashes |-> NoBlob]]
    /\ legacy \in [Paths -> {{}, {calculate_file_hash(2)}}]
    /\ known_missing = {}
    /\ temp_backups = {}
    /\ index = EmptyIndex
    /\ InitUi
    /\ InitMonitor
    /\ InitObs
    /\ InitAux

LegacyNext ==
    \/ \E p \in StorePaths, c \in Contents :
           last_restore = NoRestore /\ now < LegacyClock /\ UserWrite(p, c)
    \/ \E p \in StorePaths : last_restore = NoRestore /\ _perform_commit(p)
    \/ \E n \in 1..MaxBackupsBound :
           last_restore = NoRestore /\ now < LegacyClock /\ _continue_commit_backup(n)
    \/ last_restore = NoRestore /\ _continue_commit_record
    \/ \E p \in StorePaths, h \in Hashes :
           last_restore = NoRestore /\ check_backup_exists(p, h)
    \/ \E p \in StorePaths, h \in Hashes :
           last_restore = NoRestore /\ get_version_content(p, h)
    \/ \E p \in Paths, h \in Hashes, pl \in {"Windows", "Linux"}, uf \in BOOLEAN :
           last_restore = NoRestore /\ restore_call(p, h, pl, uf)

LegacySpec == LegacyInit /\ [][LegacyNext]_vars

\* ======================================================= the index on disk
\* commits whose save is two steps, a reader on another thread, and damage
IndexNext ==
    \/ \E p \in StorePaths, c \in Contents : now < IndexClock /\ UserWrite(p, c)
    \/ \E p \in StorePaths : _perform_commit(p)
    \/ \E n \in 1..MaxBackupsBound : now < IndexClock /\ _continue_commit_backup(n)
    \/ _continue_commit_open
    \/ _continue_commit_dump
    \/ reload_index
    \/ \E kind \in {"missing", "torn", "undecodable"} : damage_index(kind)

IndexSpec == Init /\ [][IndexNext]_vars

\* ================================================== the life of the monitor
\* the loop at the grain of its statements, with pause, resume, stop and untrack
LifeNext ==
    \/ \E p \in MonPaths, c \in Contents : now < LifeClock /\ UserWrite(p, c)
    \/ \E p \in MonPaths : set_file(p)
    \/ \E p \in MonPaths : untrack_file(p)
    \/ pause
    \/ resume
    \/ stop
    \/ loop_check
    \/ get_task
    \/ begin_pass
    \/ \E p \in MonPaths, is_closed \in BOOLEAN : check_path(p, is_closed)
    \/ end_pass

LifeSpec == MonInit /\ [][LifeNext]_vars

\* ------------------------------------------------ properties of the store
Min(a, b) == IF a <= b THEN a ELSE b

\* C4 -- retention bound: once create_backup(path, H, settings) has returned and
\* none of its deletions failed, the blob directory of that path holds at most
\* the max_backups of that call, whatever the earlier calls stored or allowed.
C4_RetentionBound ==
    (last_backup.ok /\ ~last_backup.del_failed)
        => BlobCount(last_backup.path) <= last_backup.maxb

\* a call with a smaller max_backups than before has just trimmed the directory
C4_Witness ==
    /\ last_backup.ok /\ ~last_backup.del_failed
    /\ last_backup.maxb = 1
    /\ Cardinality(evicted[last_backup.path]) >= 2
    /\ BlobCount(last_backup.path) = 1

\* C5 -- retention evicts the oldest-written blobs first: after k commits of one
\* path with pairwise distinct hashes H1..Hk and the same max_backups = N,
\* check_backup_exists(path, Hi) is true exactly for the last min(k, N) hashes;
\* and the blob a create_backup call has just written survives that call.
C5_OldestEvictedFirst ==
    /\ \A p \in Paths :
          run[p].n > 0 =>
              LET k == Len(run[p].seq)
                  keep == Min(k, run[p].n)
              IN \A i \in 1..k : backup_exists(p, run[p].seq[i]) <=> (i > k - keep)
    /\ last_backup.ok => BlobPresent(blobs[last_backup.path], last_backup.hash)

\* three commits with distinct hashes under max_backups = 2
C5_Witness ==
    \E p \in Paths : run[p].n = 2 /\ Len(run[p].seq) = 3

\* C6 -- round trip: a hash H committed while the file held the bytes B hashing
\* to H reads back, through get_version_content(path, H), as exactly B for as
\* long as retention has not deleted that blob.
C6_RoundTrip ==
    \A p \in Paths : \A h \in committed[p] :
        calculate_file_hash(version_content(p, h)) = h

\* a committed version whose file has been edited since
C6_Witness ==
    \E p \in Paths : \E h \in committed[p] :
        /\ fileContent[p] # 0
        /\ calculate_file_hash(fileContent[p]) # h

\* C8 -- the negative cache: check_backup_exists(path, H) is false while no blob
\* exists, turns from false to true only by a create_backup of exactly that
\* (path, H), and is true from the moment that create_backup has returned.
C8_NegativeCache ==
    /\ [](\A p \in Paths, h \in Hashes :
             (~BlobPresent(blobs[p], h) /\ h \notin legacy[p]) => ~backup_exists(p, h))
    /\ [](last_backup.ok => backup_exists(last_backup.path, last_backup.hash))
    /\ [][\A p \in Paths, h \in Hashes :
             (~backup_exists(p, h) /\ backup_exists(p, h)')
                 => /\ last_backup'.ok
                    /\ last_backup'.path = p
                    /\ last_backup'.hash = h
                    /\ blobs'[p][h].mtime = now']_vars

\* a create_backup of a (path, H) that the negative cache held has returned
C8_Witness ==
    /\ last_backup.ok
    /\ last_backup.was_cached
    /\ backup_exists(last_backup.path, last_backup.hash)

\* ------------------------------- properties of the commit and restore flows
\* C7 -- restore round trip: when restore_file_version(path, H) returns
\* successfully, the content hash of the file at path equals H.
C7_RestoreRoundTrip ==
    [][(restore.pc = "marked" /\ restore'.pc = "restored")
          => calculate_file_hash(fileContent'[restore.path]) = restore.hash]_vars

\* a restore has replaced content that differed from the restored version
C7_Witness ==
    /\ restore.pc = "restored"
    /\ \E b \in temp_backups :
           b.name = restore.path /\ calculate_file_hash(b.data) # restore.hash

\* C9 -- every VersionRecord (path, H) of the persisted index stands for a blob
\* that create_backup wrote; the blob is absent only if retention deleted it.
C9_RecordsHaveBlobs ==
    \A p \in Paths :
        index[p].present =>
            \A h \in VersionHashes(index[p].versions) :
                BlobPresent(blobs[p], h) \/ h \in evicted[p]

\* a record whose blob retention has deleted, and a create_backup that failed
C9_Witness ==
    /\ \E p \in Paths :
           /\ index[p].present
           /\ \E h \in VersionHashes(index[p].versions) : ~BlobPresent(blobs[p], h)
    /\ last_backup.path \in Paths /\ ~last_backup.ok

\* --------------------------------------------- properties of the monitor
\* C1 -- one edit cycle of a watched file, one callback: during a cycle the
\* callback has been invoked at most once, and exactly once when a pass has
\* hashed the stabilised content and it differs from the content before the edit.
C1_CallbackExactlyOnce ==
    \A p \in Paths :
        cycle[p].active =>
            /\ cycle[p].cb <= 1
            /\ (cycle[p].hashed /\ calculate_file_hash(fileContent[p]) # cycle[p].base)
                   => cycle[p].cb = 1

\* an edit cycle that ended with its one callback
C1_Witness ==
    \E p \in Paths : cycle[p].active /\ cycle[p].hashed /\ cycle[p].cb = 1 /\ InSync(p)

\* C2 -- after a restore has overwritten a watched file and
\* force_reset_monitoring(path) was called, no detection pass invokes the
\* callback or asks for the commit prompt for the path until it is modified again.
C2_QuietAfterReset ==
    \A p \in Paths : post[p] # "notified"

\* a pass has looked at the restored and reset file and stayed quiet
C2_Witness ==
    \E p \in Paths : post[p] = "quiet" /\ InSync(p) /\ mon.pc = "task"

\* C3 -- a close-with-modification detected for a path of the restoring set is
\* swallowed: no commit prompt, the path leaves the restoring set, the pass goes
\* on to its end.
C3_RestoringCloseSwallowed ==
    [][\A p \in Paths :
          (/\ mon.pc = "pass" /\ p \in mon.todo
           /\ p \in restoring_files
           /\ watched_files[p].is_open
           /\ watched_files'[p].watched /\ ~watched_files'[p].is_open
           /\ watched_files'[p].hash # watched_files[p].hash)
          => /\ dialogs' = dialogs /\ cooldown' = cooldown
             /\ p \notin restoring_files'
             /\ mon'.pc = "pass"]_vars

\* C10 -- the background loop never blocks forever: it is never left waiting
\* for the monitor lock while that lock cannot be released any more.
C10_LoopNeverBlocks ==
    ~(mon.pc = "blocked" /\ lock = "held")

\* ------------------------------------- properties of the monitor's life
\* C11 -- stop() drains the queue: when the loop thread has exited, every task
\* that was queued before stop() has been executed.
C11_StopDrainsQueue ==
    mon.pc = "exited" => owed = 0

\* the thread has exited after a stop() that found tasks in the queue
C11_Witness ==
    mon.pc = "exited" /\ ~running /\ background_queue # <<>>

\* C12 -- every mutation of the watch table happens under the monitor's lock:
\* while a detection pass holds the lock, the table changes only by the steps of
\* that pass.
C12_MutationsUnderLock ==
    [][(lock = "held" /\ watched_files' # watched_files) => mon' # mon]_vars

\* C18 -- between pause() and resume() no detection pass starts (the loop goes
\* back to its top instead), and the loop keeps executing the queued tasks.
C18_PausedLoopRunsTasksOnly ==
    /\ [][(~is_monitoring /\ mon.pc = "check" /\ mon' # mon)
             => (mon'.pc = "task" /\ lock' = lock /\ watched_files' = watched_files
                 /\ dialogs' = dialogs /\ files_with_changes' = files_with_changes)]_vars
    /\ [][(~is_monitoring /\ mon.pc = "get" /\ mon' # mon)
             => (mon'.pc = "check"
                 /\ (background_queue # <<>> =>
                        background_queue' = Tail(background_queue)
                                                \o queued_by(Head(background_queue))))]_vars

\* monitoring is paused and the loop is about to execute a queued task
C18_Witness ==
    /\ ~is_monitoring /\ running
    /\ mon.pc = "get"
    /\ background_queue # <<>>

\* ------------------------------------------- properties of the index on disk
\* C13 -- save_tracked_files is atomic for concurrent readers: a load that runs
\* while a save is under way returns the complete previous index or the
\* complete new one.
C13_SaveAtomic ==
    last_load.saving => last_load.value \in {last_load.old, last_load.new}

\* a load has run while a save was replacing a non-empty index
C13_Witness ==
    /\ last_load.saving
    /\ last_load.old # EmptyIndex
    /\ last_load.new # last_load.old

\* C17 -- load_tracked_files returns an empty index without raising when the
\* file is missing or is not valid JSON, and no load changes the stored blobs.
C17_LoadNeverRaises ==
    /\ [](last_load.file \in {"missing", "torn", "undecodable"}
            => (~last_load.raised /\ last_load.value = EmptyIndex))
    /\ [][last_load' # last_load => blobs' = blobs]_vars

\* a load has met a file that lost a non-empty index, with a blob in the store
C17_Witness ==
    /\ last_load.file \in {"missing", "torn"}
    /\ index # EmptyIndex
    /\ \E p \in Paths : BlobCount(p) > 0

\* ------------------------------------------ properties of the restore call
\* C15 -- restore_file_version(path, H) with no blob for (path, H) fails with the
\* not-found error, leaves the target's content as it was and writes no staging
\* copy.
C15_RestoreNotFound ==
    (last_restore.outcome # "" /\ ~last_restore.had_blob)
        => /\ last_restore.outcome = "not_found"
           /\ last_restore.after = last_restore.before
           /\ ~last_restore.staged

\* a restore of a version that retention had deleted, the target existing
C15_Witness ==
    /\ last_restore.outcome = "not_found"
    /\ last_restore.before # 0
    /\ BlobCount(last_restore.path) > 0

\* C16 -- when the target cannot be opened for writing, restore_file_version
\* fails with the permission error (and with no other) if the blob exists,
\* the target's content is unchanged and no temp sibling is left behind.
C16_RestoreLocked ==
    (last_restore.outcome # "" /\ last_restore.before # 0 /\ last_restore.locked)
        => /\ last_restore.had_blob => last_restore.outcome = "permission"
           /\ last_restore.outcome \in {"permission", "not_found"}
           /\ last_restore.after = last_restore.before
           /\ ~last_restore.sibling

\* a restore of a stored version of an office document that was locked
C16_Witness ==
    /\ last_restore.outcome = "permission"
    /\ Ext(last_restore.path) \in OfficeExts
    /\ calculate_file_hash(last_restore.before) # last_restore.hash

\* ------------------------------------- properties of one detection pass
\* C14 -- when a step of the loop body raises for a path (stat, hash or
\* callback), the pass goes on with the other paths, the entry of the path stays
\* in the watch table, and the failure is retried by the next pass: the entry
\* still holds the hash and mtime it held, so that the next pass finds the same
\* change again.
C14_FailureRetried ==
    [][\A p \in Paths :
          (mon.pc = "pass" /\ p \in mon.todo /\ p \notin mon'.todo
              /\ pass_log'[p].fault \in {"stat", "hash", "callback"})
          => /\ mon'.pc = "pass"
             /\ mon'.todo = mon.todo \ {p}
             /\ watched_files'[p].watched
             /\ watched_files'[p].hash = watched_files[p].hash
             /\ watched_files'[p].mtime = watched_files[p].mtime]_vars

\* the callback raised for one path while another path was still to be visited
C14_Witness ==
    \E p \in Paths :
        /\ pass_log[p].fault = "callback"
        /\ mon.pc = "pass"
        /\ mon.todo # {}
        /\ watched_files[p].watched

C20_CloseHandledOnce ==
    \A p \in Paths :
        cycle[p].active =>
            /\ cycle[p].hc <= 1
            /\ (/\ cycle[p].hashed
                /\ calculate_file_hash(fileContent[p]) # cycle[p].base
                /\ InSync(p)
                /\ watched_files[p].hash = calculate_file_hash(fileContent[p])
                /\ ~watched_files[p].is_open
                /\ ~locked[p]
                /\ p \in tracked_files
                /\ p \notin restoring_files)
                   => cycle[p].hc = 1

\* an edit that left the size as it was, of an entry that was Closed, after a pass
C20_Witness ==
    \E p \in Paths :
        /\ cycle[p].active /\ cycle[p].hashed /\ cycle[p].hc = 0
        /\ calculate_file_hash(fileContent[p]) # cycle[p].base
        /\ getsize(fileContent[p]) = getsize(1)
        /\ InSync(p) /\ ~watched_files[p].is_open /\ ~locked[p]

\* ------------------------------------------ properties of the task queue
\* C21 -- the task step of a loop iteration executes every task that is in the
\* queue when the iteration begins: every path with a watch request in the queue
\* at that moment, its file existing, is in the watch table when the step is
\* over and the detection pass is next.
C21_QueueDrainedBeforePass ==
    [][(mon.pc \in {"task", "get"} /\ mon'.pc = "check")
          => \A i \in 1..Len(background_queue) :
                 (background_queue[i].task = "set_file"
                     /\ fileContent[background_queue[i].path] # 0)
                 => watched_files'[background_queue[i].path].watched]_vars

\* a detection pass is under way while a watch request of an unwatched path,
\* queued together with another, is still in the queue
C21_Witness ==
    /\ mon.pc = "pass"
    /\ background_queue # <<>>
    /\ Head(background_queue).task = "set_file"
    /\ ~watched_files[Head(background_queue).path].watched
    /\ \E p \in Paths : p # Head(background_queue).path /\ watched_files[p].watched

\* ------------------------------------------ properties of the commit flow
\* C22 -- once a commit is complete (no commit is under way at either entry
\* point), the persisted index holds no record for a hash whose blob retention
\* has deleted.
C22_EvictedRecordsGone ==
    (commit["page"].pc = "idle" /\ commit["dialog"].pc = "idle")
        => \A p \in Paths :
               \A h \in evicted[p] : h \notin VersionHashes(index[p].versions)

\* a commit whose retention pass deleted a blob has completed: the newest
\* record is that of a stored blob, and a blob is gone
C22_Witness ==
    /\ commit["page"].pc = "idle" /\ commit["dialog"].pc = "idle"
    /\ \E p \in Paths :
           /\ evicted[p] # {}
           /\ index[p].present
           /\ \E h \in VersionHashes(index[p].versions) :
                  BlobPresent(blobs[p], h) /\ blobs[p][h].mtime = now

\* ------------------------------------------ properties of the commit prompt
\* C23 -- a detection pass requests the commit prompt for a path (the path
\* enters the cooldown) only if the path is in the index as load_tracked_files
\* returns it at that moment and is not in the restoring set.
C23_PromptOnlyForTracked ==
    [][\A p \in Paths :
          (p \in cooldown' /\ p \notin cooldown)
          => /\ p \in tracked_paths(load_tracked_files)
             /\ p \notin restoring_files
             /\ dialogs'[p] # 0]_vars

\* a prompt has been requested for a tracked path in the pass under way
C23_Witness ==
    \E p \in Paths :
        /\ p \in cooldown /\ dialogs[p] = now
        /\ pass_log[p].handler
        /\ p \in tracked_files

\* ------------------------------------------ properties of the pending changes
\* C24 -- when no commit is under way, the newest record of a path is that of
\* the content the file holds and the file has not been modified since that
\* record was written, the monitor does not report the path as pending.
C24_CommitClearsPending ==
    \A p \in Paths :
        (/\ commit["page"].pc = "idle" /\ commit["dialog"].pc = "idle"
         /\ lock = "free"
         /\ index[p].present /\ index[p].versions # <<>>
         /\ fileContent[p] # 0
         /\ latest_version(index[p].versions) = calculate_file_hash(fileContent[p])
         /\ \E i \in 1..Len(index[p].versions) :
                /\ index[p].versions[i].hash = calculate_file_hash(fileContent[p])
                /\ fileMtime[p] <= index[p].versions[i].ts)
        => p \notin files_with_changes

\* the edited file has been committed and is not reported as pending
C24_Witness ==
    \E p \in Paths :
        /\ commit["page"].pc = "idle" /\ commit["dialog"].pc = "idle"
        /\ lock = "free"
        /\ index[p].present /\ Len(index[p].versions) > 1
        /\ latest_version(index[p].versions) = calculate_file_hash(fileContent[p])
        /\ fileMtime[p] > 1
        /\ p \notin files_with_changes
        /\ watched_files[p].watched

\* ------------------------------------------ properties of the restoring set
\* C25 -- a path is in the restoring set only while a restore of it is in
\* progress: when no restore thread of the restore page is running, the set is
\* empty.
C25_RestoringOnlyDuringRestore ==
    restore.pc = "idle" => restoring_files = {}

\* a restore has run to its end and has left the restoring set empty
C25_Witness ==
    /\ restore.pc = "idle"
    /\ restoring_files = {}
    /\ temp_backups # {}

\* ------------------------------------------ properties of a failed restore
\* C26 -- restore is all-or-nothing: when restore_file_version fails at a step
\* after the blob-exists check (decompression, unlink of the target, rename or
\* replace of the temp file), the target still exists with its complete
\* pre-restore content and no temp sibling file remains.
C26_RestoreAllOrNothing ==
    (last_restore.outcome \in {"failed", "permission"} /\ last_restore.before # 0)
        => /\ last_restore.after = last_restore.before
           /\ ~last_restore.sibling

\* a restore of a stored version that failed after the staging copy was written
\* and left the target and its directory as they were
C26_Witness ==
    /\ last_restore.outcome = "failed"
    /\ last_restore.had_blob
    /\ last_restore.staged
    /\ last_restore.after = last_restore.before
    /\ ~last_restore.sibling
    /\ calculate_file_hash(last_restore.before) # last_restore.hash

\* ------------------------------------- properties of the layouts of a blob
\* C27 -- whenever check_backup_exists(path, H) returns true,
\* get_version_content(path, H) returns the stored bytes and
\* restore_file_version(path, H) does not fail with not-found, also when the
\* blob is present only under the legacy basename-only layout.
C27_ExistsMeansReadable ==
    last_restore.found
        => /\ calculate_file_hash(last_restore.content) = last_restore.hash
           /\ last_restore.outcome # "not_found"

\* a version found under the primary layout was restored while another version
\* of the same file lies under the legacy layout
C27_Witness ==
    /\ last_restore.found
    /\ last_restore.outcome = "ok"
    /\ legacy[last_restore.path] # {}
    /\ last_restore.hash \notin legacy[last_restore.path]

\* ------------------------------------------ properties of two commits at once
\* C28 -- no lost update on the index: when two commits of different paths
\* overlap between loading the index and saving it, the persisted index holds
\* the VersionRecord of each after both have completed; so the save that ends a
\* commit of one path keeps every record the index holds for the other paths.
C28_NoLostUpdate ==
    [][\A k \in {"page", "dialog"} :
           (commit[k].pc = "record" /\ commit'[k].pc # "record" /\ index' # index)
               => \A q \in Paths \ {commit[k].path} :
                      VersionHashes(index[q].versions) \subseteq
                          VersionHashes(index'[q].versions)]_vars

\* a commit by the page and a commit by the dialog, of different paths, have both
\* completed and the index holds the record of each
C28_Witness ==
    /\ commit["page"].pc = "idle"
    /\ commit["dialog"].pc = "idle"
    /\ \A p \in Paths : index[p].present
    /\ \E p \in MonPaths : Len(index[p].versions) > 1 /\ dialogs[p] = 0 /\ fileMtime[p] > 1

\* ------------------------------------- properties of the most recent version
\* C29 -- for every set of VersionRecords of one path whose timestamps are all
\* in the canonical format YYYY-MM-DD HH:MM:SS, the version has_file_changed
\* selects as most recent by comparing parsed date-times is the version
\* _get_last_commit selects by comparing the raw strings, also when two records
\* carry the same timestamp.
C29_SameLatestVersion ==
    (pick.parsed # NoHash /\ pick.raw # NoHash) => pick.parsed = pick.raw

\* both selections were made from three records of which the two most recent
\* carry the same timestamp, a month of two digits after one of one digit
C29_Witness ==
    /\ pick.parsed # NoHash
    /\ pick.raw # NoHash
    /\ Len(pick.versions) = 3
    /\ pick.versions[2].timestamp = pick.versions[3].timestamp
    /\ strptime(pick.versions[1].timestamp)[2] < 10
    /\ strptime(pick.versions[2].timestamp) = <<2024, 11, 10, 9, 5, 59>>
    /\ strptime(pick.versions[1].timestamp)[1] = 2024
    /\ pick.parsed = pick.versions[2].hash

\* --------------------------------------------- properties of the pending count
\* C30 -- in every state observed outside the monitor's lock,
\* pending_changes_count is the number of paths in files_with_changes, and is
\* never negative, after any sequence of detection passes, file deletions,
\* update_after_commit, force_reset_monitoring and clear_pending_changes.
C30_CountIsCardinality ==
    lock = "free"
        => /\ pending_changes_count = Cardinality(files_with_changes)
           /\ pending_changes_count >= 0

\* the change of one file is pending while the other file, edited as well, is
\* watched with its present content and is not pending
C30_Witness ==
    /\ lock = "free"
    /\ pending_changes_count = 1
    /\ \E p \in Paths :
           /\ p \notin files_with_changes
           /\ watched_files[p].watched
           /\ watched_files[p].hash # calculate_file_hash(1)
           /\ watched_files[p].hash = calculate_file_hash(fileContent[p])
           /\ background_queue = <<>>

==============================================================================
